---- MODULE Spec2Model ----
(***************************************************************************)
(* Model of the photolist duplicate finder: the identity value types       *)
(* (data/ImageData.py, data/ChecksumImageData.py), the per-folder grouping *)
(* (find_duplicates) and the scan orchestrator (services/ScannerService).  *)
(***************************************************************************)
EXTENDS Integers, Sequences, FiniteSets, TLC

(***************************************************************************)
(* Bounds of the model.                                                    *)
(***************************************************************************)
\* number of folders handed to scan()
NumRoots == 2
\* total number of image files found under all scanned folders
MaxFiles == 3
\* threads calling ScannerService.check() at the same time
NumCallers == 2
\* duplicate groups plus uniques of a scan result that is copied
MaxCopyItems == 3

Roots == 1..NumRoots

(***************************************************************************)
(* Python values.  None is the distinguished string "<None>"; "" is the    *)
(* empty string.  A value is truthy when it is neither None nor empty.     *)
(***************************************************************************)
None == "<None>"
Truthy(v) == v # None /\ v # ""

FileNames == {"a.jpg", "b.jpg"}
ExifDates == {None, "", "2023:12:31 14:30:00", "2024:01:01 09:00:00"}
Checksums == {None, "", "c1", "c2"}
Dates == {1, 2}
Sizes == {1, 2}

(***************************************************************************)
(* ImageData / ChecksumImageData instances.  id is the object identity     *)
(* (what Python's `is` compares); variant is the class of the instance.    *)
(***************************************************************************)
MkImage(id, variant, path, date, size, filename, exif_date, checksum) ==
    [id |-> id, variant |-> variant, path |-> path, date |-> date,
     size |-> size, filename |-> filename, exif_date |-> exif_date,
     checksum |-> checksum]

\* ImageData.__eq__ with the filename compared in the EXIF branch as well
ImageDataEq_FilenameInExifBranch(self, other) ==
    IF self.id = other.id THEN TRUE
    ELSE IF Truthy(self.exif_date) /\ Truthy(other.exif_date)
         THEN /\ self.exif_date = other.exif_date
              /\ self.size = other.size
              /\ self.filename = other.filename
         ELSE /\ self.filename = other.filename
              /\ self.date = other.date
              /\ self.size = other.size

\* ImageData.__eq__ (self and other both instances of ImageData)
ImageDataEq(self, other) ==
    IF self.id = other.id THEN TRUE
    ELSE IF Truthy(self.exif_date) /\ Truthy(other.exif_date)
         THEN self.exif_date = other.exif_date /\ self.size = other.size
         ELSE /\ self.filename = other.filename
              /\ self.date = other.date
              /\ self.size = other.size

\* ImageData.__hash__: hash((date_key, size, filename)).  The hash value is
\* represented by the tuple it is computed from; date_key is a string (EXIF)
\* or a number (modification time), kept in separate fields.
ImageDataHash(self) ==
    IF Truthy(self.exif_date)
    THEN <<"meta", self.exif_date, 0, self.size, self.filename>>
    ELSE <<"meta", None, self.date, self.size, self.filename>>

\* ChecksumImageData.__eq__ (self and other both ChecksumImageData)
ChecksumImageDataEq(self, other) ==
    IF self.id = other.id THEN TRUE
    ELSE /\ self.checksum = other.checksum
         /\ self.size = other.size
         /\ self.checksum # None

\* ChecksumImageData.__hash__
ChecksumImageDataHash(self) ==
    IF Truthy(self.checksum)
    THEN <<"ck", self.checksum, 0, self.size, "">>
    ELSE ImageDataHash(self)

\* a == b as Python evaluates it: the class of the left operand decides,
\* ChecksumImageData.__eq__ returns NotImplemented for a plain ImageData and
\* the comparison then falls to ImageData.__eq__.
PyEq(a, b) ==
    IF a.variant = "checksum" /\ b.variant = "checksum"
    THEN ChecksumImageDataEq(a, b)
    ELSE ImageDataEq(a, b)

\* hash(a)
PyHash(a) ==
    IF a.variant = "checksum" THEN ChecksumImageDataHash(a)
    ELSE ImageDataHash(a)

(***************************************************************************)
(* Python dict / set keyed by identities.  A dict is the sequence of its   *)
(* entries in insertion order; a stored key k answers a lookup of x when   *)
(* the hashes agree and (k is x or k == x).                                *)
(***************************************************************************)
KeyMatch(k, x) == PyHash(k) = PyHash(x) /\ (k.id = x.id \/ PyEq(k, x))

DictFind(d, x) ==
    IF \E i \in 1..Len(d) : KeyMatch(d[i].key, x)
    THEN CHOOSE i \in 1..Len(d) :
            /\ KeyMatch(d[i].key, x)
            /\ \A j \in 1..(i-1) : ~KeyMatch(d[j].key, x)
    ELSE 0

DictHas(d, x) == DictFind(d, x) # 0

\* d[x] = paths when x is absent; d[x].update(paths) when present
DictUpdate(d, x, paths) ==
    LET i == DictFind(d, x) IN
    IF i = 0 THEN Append(d, [key |-> x, paths |-> paths])
    ELSE [d EXCEPT ![i].paths = @ \cup paths]

\* d[x] = paths (assignment: replaces the value, keeps a stored key)
DictSet(d, x, paths) ==
    LET i == DictFind(d, x) IN
    IF i = 0 THEN Append(d, [key |-> x, paths |-> paths])
    ELSE [d EXCEPT ![i].paths = paths]

DictKeys(d) == {d[i].key : i \in 1..Len(d)}
SeqElems(s) == {s[i] : i \in 1..Len(s)}

(***************************************************************************)
(* find_duplicates, lines 121-138: group the probed identities by dict     *)
(* key, then split by the number of paths.                                 *)
(***************************************************************************)
RECURSIVE FoldFiles(_, _, _)
FoldFiles(found_files, all_files, i) ==
    IF i > Len(all_files) THEN found_files
    ELSE FoldFiles(DictUpdate(found_files, all_files[i], {all_files[i].path}),
                   all_files, i + 1)

IsDuplicateEntry(e) == Cardinality(e.paths) > 1
IsUniqueEntry(e) == ~IsDuplicateEntry(e)

RECURSIVE EntryKeys(_)
EntryKeys(d) ==
    IF d = <<>> THEN <<>> ELSE <<Head(d).key>> \o EntryKeys(Tail(d))

\* the final loop shared by find_duplicates and _merge_folder_results
SplitByPathCount(image_map) ==
    [uniques    |-> EntryKeys(SelectSeq(image_map, IsUniqueEntry)),
     duplicates |-> SelectSeq(image_map, IsDuplicateEntry)]

find_duplicates(all_files) == SplitByPathCount(FoldFiles(<<>>, all_files, 1))

(***************************************************************************)
(* ScannerService._scan_folders_parallel, lines 177-184: fold one folder's *)
(* result into the aggregate.                                              *)
(***************************************************************************)
RECURSIVE AggregateDuplicates(_, _, _)
AggregateDuplicates(all_dups, folder_duplicates, i) ==
    IF i > Len(folder_duplicates) THEN all_dups
    ELSE AggregateDuplicates(
             DictUpdate(all_dups, folder_duplicates[i].key,
                        folder_duplicates[i].paths),
             folder_duplicates, i + 1)

(***************************************************************************)
(* ScannerService._merge_folder_results, lines 209-232.                    *)
(***************************************************************************)
RECURSIVE SeedDuplicates(_, _, _)
SeedDuplicates(image_map, all_dups, i) ==
    IF i > Len(all_dups) THEN image_map
    ELSE SeedDuplicates(DictSet(image_map, all_dups[i].key, all_dups[i].paths),
                        all_dups, i + 1)

\* the aggregate handed on as it is
_merge_folder_results_NoMerge(uniques, dups) ==
    [uniques |-> uniques, duplicates |-> dups]

_merge_folder_results(uniques, dups) ==
    SplitByPathCount(FoldFiles(SeedDuplicates(<<>>, dups, 1), uniques, 1))

(***************************************************************************)
(* ScannerService._filter_against_base, lines 248-261.                     *)
(***************************************************************************)
RECURSIVE SetUpdate(_, _, _)
SetUpdate(known, items, i) ==
    IF i > Len(items) THEN known
    ELSE SetUpdate(DictUpdate(known, items[i], {}), items, i + 1)

\* known_items built from the baseline's uniques only
KnownItems_UniquesOnly(base) == SetUpdate(<<>>, base.uniques, 1)

KnownItems(base) ==
    SetUpdate(SetUpdate(<<>>, base.uniques, 1), EntryKeys(base.duplicates), 1)

\* the membership test inverted: keeps what the baseline knows
_filter_against_base_KeepsKnown(uniques, dups, base) ==
    LET known_items == KnownItems(base)
        Known(u) == DictHas(known_items, u)
        KnownEntry(e) == DictHas(known_items, e.key)
    IN [uniques    |-> SelectSeq(uniques, Known),
        duplicates |-> SelectSeq(dups, KnownEntry)]

_filter_against_base(uniques, dups, base) ==
    LET known_items == KnownItems(base)
        NotKnown(u) == ~DictHas(known_items, u)
        NotKnownEntry(e) == ~DictHas(known_items, e.key)
    IN [uniques    |-> SelectSeq(uniques, NotKnown),
        duplicates |-> SelectSeq(dups, NotKnownEntry)]

(***************************************************************************)
(* The files a scan can find.  A file is described by what stat/EXIF/MD5   *)
(* report for it; its path is <<root, slot, basename>>.                    *)
(***************************************************************************)
ScanExifDates == {None, "2023:12:31 14:30:00"}
ScanChecksums == {None, "c1", "c2"}
ScanDates == {1}

\* Metadata mode: a photo, a renamed copy of it (same EXIF date) and a file
\* with the photo's name but no EXIF date.  Checksum mode: an unreadable file
\* (checksum None) and files of two different contents.
FileKinds(checksum_mode) ==
    IF checksum_mode
    THEN [filename : {"a.jpg"}, date : ScanDates, size : {1},
          exif_date : {None}, checksum : ScanChecksums]
    ELSE {k \in [filename : FileNames, date : ScanDates, size : {1},
                 exif_date : ScanExifDates, checksum : {None}] :
            k.filename = "a.jpg" \/ k.exif_date # None}

\* every list of at most n files
FileLists(checksum_mode, n) ==
    UNION {[1..k -> FileKinds(checksum_mode)] : k \in 0..n}

\* process_image: one identity per probed file; basename and stat fill the
\* fields.  Object ids are unique per (root, slot).
process_image(r, slot, kind) ==
    MkImage(10 * r + slot, "metadata", <<r, slot, kind.filename>>, kind.date,
            kind.size, kind.filename, kind.exif_date, None)

\* the checksum-mode probe builds a ChecksumImageData for the same file
process_image_checksum(r, slot, kind) ==
    MkImage(10 * r + slot, "checksum", <<r, slot, kind.filename>>, kind.date,
            kind.size, kind.filename, kind.exif_date, kind.checksum)

ProbeAll(checksum_mode, r, kinds) ==
    [i \in 1..Len(kinds) |->
        IF checksum_mode THEN process_image_checksum(r, i, kinds[i])
        ELSE process_image(r, i, kinds[i])]

(***************************************************************************)
(* ScanResult, and the baselines a caller may pass to scan().              *)
(***************************************************************************)
NoResult == [kind |-> "none"]

ScanResult(uniques, dups, scanned_paths, extension, detection_mode) ==
    [kind |-> "ScanResult", uniques |-> uniques, duplicates |-> dups,
     scanned_paths |-> scanned_paths, extension |-> extension,
     detection_mode |-> detection_mode]

BaseImage(variant, kind) ==
    MkImage(100, variant, <<0, 1, kind.filename>>, kind.date, kind.size,
            kind.filename, kind.exif_date, kind.checksum)

BaseKinds(checksum_mode) ==
    {k \in FileKinds(checksum_mode) :
        k.filename = "a.jpg" /\ k.checksum # "c2"}

\* an empty baseline, or one holding one identity, as a unique item or as a
\* duplicate group
BaseResults(checksum_mode) ==
    LET variant == IF checksum_mode THEN "checksum" ELSE "metadata"
        mode    == IF checksum_mode THEN "checksum" ELSE "metadata"
    IN  {ScanResult(<<>>, <<>>, <<0>>, "jpg", mode)}
        \cup {ScanResult(<<BaseImage(variant, k)>>, <<>>, <<0>>, "jpg", mode) :
                k \in BaseKinds(checksum_mode)}
        \cup {ScanResult(<<>>,
                         <<[key |-> BaseImage(variant, k),
                            paths |-> {<<0, 1, k.filename>>,
                                       <<0, 2, k.filename>>}]>>,
                         <<0>>, "jpg", mode) :
                k \in BaseKinds(checksum_mode)}

(***************************************************************************)
(* State.                                                                  *)
(***************************************************************************)
VARIABLES
    pc,                 \* position of the thread running ScannerService.scan
    cancel_event,       \* ScannerService._cancel_event
    use_checksum,       \* argument of scan()
    task,               \* per folder: state of its find_duplicates future
    all_files,          \* per folder: identities its probes produced
    pending,            \* futures as_completed has ready, in completion order
    consumed,           \* folders whose future the loop has taken
    all_uniques,        \* aggregate of _scan_folders_parallel
    all_duplicates,     \* aggregate of _scan_folders_parallel
    completed_folders,  \* progress counter of folder_done()
    logged,             \* folders whose exception was logged (line 189)
    base_result,        \* argument of scan()
    result,             \* what scan() returned
    self_filtered,      \* _filter_against_base(result, result)
    cancel_at,          \* where scan() was when cancel() was called
    cmp,                \* operands and outcome of an ==/hash evaluation
    instances,          \* ChecksumImageData objects and the calls made on them
    frame,              \* path-set objects of a merge and baseline filter
    store,              \* the storage file and the calls of ScanResultStorage
    ext,                \* argument of scan()
    extensions,         \* local of scan(), line 71; handed to every task
    progress_calls,     \* (current, total) of each folder-progress callback
    disk,               \* per folder: the files under it
    pause_event,        \* ScannerService._pause_event
    checker,            \* per calling thread: its call of check()
    resolution,         \* input and outcome of TargetPathResolver.resolve
    copy_pc,            \* position of the thread in copy_distinct_items
    copy_cancel,        \* CopyService._cancel_event
    copy_job,           \* arguments of copy_distinct_items
    copy_next,          \* index of the next item of the running loop
    copied_count,       \* local of copy_distinct_items
    error_count,        \* local of copy_distinct_items
    copy_log,           \* messages passed to log_callback
    target_files,       \* files under target_root: name -> source copied
    copy_calls,         \* the shutil.copy2 calls made, in order
    tree,               \* what glob lists under each root, and the files
    calls,              \* per find_duplicates call: its locals and futures
    events,             \* files opened and paths recorded, in order
    find_scan,          \* the scan the find_duplicates calls belong to
    window              \* MainWindow: its fields and Tk's queue of callbacks

checkVars == <<pause_event, checker>>
resolveVars == <<resolution>>
copyVars == <<copy_pc, copy_cancel, copy_job, copy_next, copied_count,
              error_count, copy_log, target_files, copy_calls>>
findVars == <<tree, calls, events, find_scan>>

dataVars == <<instances, frame, store>>

\* what no step of scan() writes
restVars == <<ext, disk, findVars, window, checkVars, resolveVars, copyVars>>

scanVars == <<pc, cancel_event, use_checksum, task, all_files, pending,
              consumed, all_uniques, all_duplicates, completed_folders,
              logged, base_result, result, self_filtered, cancel_at,
              extensions, progress_calls>>

vars == <<scanVars, cmp, dataVars, restVars>>

NoCmp == [stage |-> "none"]

IdleFrame == frame = [pc |-> "none"]

IdleStore == store = [pc |-> "none"]

IdleData == instances = <<>> /\ IdleFrame /\ IdleStore

(***************************************************************************)
(* The ext argument of scan(): a str or a list of str.                     *)
(***************************************************************************)
PyStr(v) == [type |-> "str", v |-> v]
PyList(v) == [type |-> "list", v |-> v]

ExtStrings == {"jpg", ""}
ExtLists == {<<"jpg">>, <<"jpg", "png">>, <<>>}
ExtArgs(e) ==
    \/ \E s \in ExtStrings : e = PyStr(s)
    \/ \E l \in ExtLists : e = PyList(l)

\* line 71: extensions = [ext] if isinstance(ext, str) else ext
NormalizeExt(e) == IF e.type = "str" THEN <<e.v>> ELSE e.v

RECURSIVE JoinWith(_, _)
JoinWith(sep, strs) ==
    IF strs = <<>> THEN ""
    ELSE IF Len(strs) = 1 THEN strs[1]
    ELSE strs[1] \o sep \o JoinWith(sep, Tail(strs))

\* joining with a bare comma
JoinExtensions_NoSpace(exts) == JoinWith(",", exts)

\* line 103: ', '.join(extensions)
JoinExtensions(exts) == JoinWith(", ", exts)

NoDisk == [r \in Roots |-> <<>>]

InitScan ==
    /\ pc = "idle"
    /\ cancel_event \in BOOLEAN
    /\ use_checksum = FALSE
    /\ task = [r \in Roots |-> "unsubmitted"]
    /\ all_files = [r \in Roots |-> <<>>]
    /\ pending = <<>>
    /\ consumed = {}
    /\ all_uniques = <<>>
    /\ all_duplicates = <<>>
    /\ completed_folders = 0
    /\ logged = {}
    /\ base_result = NoResult
    /\ result = NoResult
    /\ self_filtered = NoResult
    /\ cancel_at = "never"
    /\ extensions = <<>>
    /\ progress_calls = <<>>

\* no thread is in check(), resolve() or copy_distinct_items()
IdleCheck == pause_event = FALSE /\ checker = <<>>
IdleResolve == resolution = [stage |-> "none"]
IdleFind ==
    /\ tree = [kind |-> "none"]
    /\ calls = <<>>
    /\ events = {}
    /\ find_scan = "none"
IdleWindow == window = [thread |-> "none"]
IdleCopy ==
    /\ copy_pc = "idle"
    /\ copy_cancel = FALSE
    /\ copy_job = [kind |-> "none"]
    /\ copy_next = 0
    /\ copied_count = 0
    /\ error_count = 0
    /\ copy_log = <<>>
    /\ target_files = <<>>
    /\ copy_calls = <<>>

\* scan(folders, "jpg", ...) with find_duplicates replaced by a double that
\* returns a grouping without reading the disk
\* (tests/test_scanner_service.py patches it the same way)
Init ==
    /\ InitScan
    /\ IdleFind /\ IdleWindow
    /\ ext = PyStr("jpg")
    /\ disk = NoDisk
    /\ cmp = NoCmp /\ IdleData
    /\ IdleCheck /\ IdleResolve /\ IdleCopy

RECURSIVE CountFiles(_, _)
CountFiles(files, r) ==
    IF r = 0 THEN 0 ELSE Len(files[r]) + CountFiles(files, r - 1)

FilesProbed == CountFiles(all_files, NumRoots)

DetectionMode == IF use_checksum THEN "checksum" ELSE "metadata"

Folders == [r \in Roots |-> r]

(***************************************************************************)
(* ScannerService.scan, lines 67-68 and 154-167: clear the flags and       *)
(* submit one find_duplicates task per folder.                             *)
(***************************************************************************)
StartScan ==
    /\ pc = "idle"
    /\ cancel_event' = FALSE
    /\ \E m \in BOOLEAN : use_checksum' = m
    /\ extensions' = NormalizeExt(ext)
    /\ task' = [r \in Roots |-> "running"]
    /\ pc' = "loop"
    /\ UNCHANGED <<all_files, pending, consumed, all_uniques, all_duplicates,
                   completed_folders, logged, base_result, result,
                   self_filtered, cancel_at, cmp, dataVars,
                   progress_calls, restVars>>

(***************************************************************************)
(* A folder task (ImageData.find_duplicates run by the pool) ends: it      *)
(* returns its grouping, raises an error, or raises ProcessingCancelled    *)
(* from a controller.check() that saw the cancel flag.  What a returning   *)
(* task found stays inside its future; the files are drawn when            *)
(* future.result() hands the grouping to the loop (ConsumeFuture).         *)
(***************************************************************************)
\* a folder task that counts itself as completed from its own thread
TaskReturn_CountsFolder(r) ==
    /\ task[r] = "running"
    /\ task' = [task EXCEPT ![r] = "returned"]
    /\ pending' = Append(pending, r)
    /\ completed_folders' = completed_folders + 1
    /\ UNCHANGED <<pc, cancel_event, use_checksum, all_files, consumed,
                   all_uniques, all_duplicates, logged, base_result,
                   result, self_filtered, cancel_at, cmp, dataVars,
                   extensions, progress_calls, restVars>>

TaskReturn(r) ==
    /\ task[r] = "running"
    /\ task' = [task EXCEPT ![r] = "returned"]
    /\ pending' = Append(pending, r)
    /\ UNCHANGED <<pc, cancel_event, use_checksum, all_files, consumed,
                   all_uniques,
                   all_duplicates, completed_folders, logged, base_result,
                   result, self_filtered, cancel_at, cmp, dataVars,
                   extensions, progress_calls, restVars>>

TaskRaise(r) ==
    /\ task[r] = "running"
    /\ task' = [task EXCEPT ![r] = "raised"]
    /\ pending' = Append(pending, r)
    /\ UNCHANGED <<pc, cancel_event, use_checksum, all_files, consumed,
                   all_uniques, all_duplicates, completed_folders, logged,
                   base_result, result, self_filtered, cancel_at, cmp, dataVars,
                   extensions, progress_calls, restVars>>

TaskCancelled(r) ==
    /\ task[r] = "running"
    /\ cancel_event
    /\ task' = [task EXCEPT ![r] = "cancelled"]
    /\ pending' = Append(pending, r)
    /\ UNCHANGED <<pc, cancel_event, use_checksum, all_files, consumed,
                   all_uniques, all_duplicates, completed_folders, logged,
                   base_result, result, self_filtered, cancel_at, cmp, dataVars,
                   extensions, progress_calls, restVars>>

(***************************************************************************)
(* _scan_folders_parallel, lines 169-189: one iteration of the             *)
(* as_completed loop.                                                      *)
(***************************************************************************)
\* lines 136-145: the (current, total) folder_done() hands to
\* progress_callback after incrementing the counter
folder_done(completed) == [current |-> completed, total |-> NumRoots]

\* line 178
AggregateUniques(uniques, folder_uniques) == uniques \o folder_uniques

\* a handler that lets everything but a cancellation through
CaughtByHandler_OnlyCancellation(status) == status = "cancelled"

\* line 188: `except Exception` catches whatever future.result() re-raises;
\* ProcessingCancelled derives from Exception (data/ImageData.py, line 9)
CaughtByHandler(status) == status \in {"raised", "cancelled"}

ConsumeFuture ==
    /\ pc = "loop"
    /\ pending # <<>>
    /\ IF cancel_event
       THEN /\ pc' = "exit"
            /\ UNCHANGED <<pending, consumed, all_uniques, all_duplicates,
                           completed_folders, logged, all_files,
                           progress_calls>>
       ELSE LET folder == Head(pending)
            IN  /\ pending' = Tail(pending)
                /\ consumed' = consumed \cup {folder}
                /\ IF task[folder] = "returned"
                   THEN /\ \E kinds \in FileLists(use_checksum,
                                                  MaxFiles - FilesProbed) :
                              all_files' =
                                  [all_files EXCEPT ![folder] =
                                      ProbeAll(use_checksum, folder, kinds)]
                        /\ LET folder_result ==
                                   find_duplicates(all_files'[folder])
                           IN  /\ all_uniques' =
                                     AggregateUniques(all_uniques,
                                                      folder_result.uniques)
                               /\ all_duplicates' =
                                     AggregateDuplicates(
                                         all_duplicates,
                                         folder_result.duplicates, 1)
                        /\ completed_folders' = completed_folders + 1
                        /\ progress_calls' =
                              Append(progress_calls,
                                     folder_done(completed_folders'))
                        /\ UNCHANGED <<pc, logged>>
                   ELSE IF CaughtByHandler(task[folder])
                   THEN /\ logged' = logged \cup {folder}
                        /\ UNCHANGED <<pc, all_uniques, all_duplicates,
                                       completed_folders, all_files,
                                       progress_calls>>
                   ELSE /\ pc' = "failed"
                        /\ UNCHANGED <<all_uniques, all_duplicates,
                                       completed_folders, logged, all_files,
                                       progress_calls>>
    /\ UNCHANGED <<cancel_event, use_checksum, task, base_result,
                   result, self_filtered, cancel_at, cmp, dataVars,
                   extensions, restVars>>

(***************************************************************************)
(* _scan_folders_parallel, lines 154 (pool exit waits for every task) and  *)
(* 191-194; scan, lines 107-109.                                           *)
(***************************************************************************)
\* leaving the pool without looking at the cancel flag
AfterPool_NoCheck(cancelled) == "merge"

\* lines 191-194: raise ProcessingCancelled when the flag is set
AfterPool(cancelled) == IF cancelled THEN "cancelled" ELSE "merge"

LeavePool ==
    /\ pc = "exit" \/ (pc = "loop" /\ consumed = Roots)
    /\ \A r \in Roots : task[r] # "running"
    /\ pc' = AfterPool(cancel_event)
    /\ UNCHANGED <<cancel_event, use_checksum, task, all_files, pending,
                   consumed, all_uniques, all_duplicates, completed_folders,
                   logged, base_result, result, self_filtered, cancel_at, cmp,
                   dataVars,
                   extensions, progress_calls, restVars>>

(***************************************************************************)
(* scan, lines 86-105: merge, filter against the baseline, return.         *)
(***************************************************************************)
ScanOutput(uniques, dups, base) ==
    LET merged == _merge_folder_results(uniques, dups)
    IN  IF base # NoResult
        THEN _filter_against_base(merged.uniques, merged.duplicates, base)
        ELSE merged

MergeAndReturn ==
    /\ pc = "merge"
    /\ \E base \in {NoResult} \cup BaseResults(use_checksum) :
          /\ base_result' = base
          /\ LET final == ScanOutput(all_uniques, all_duplicates, base)
             IN  result' = ScanResult(final.uniques, final.duplicates,
                                      Folders, JoinExtensions(extensions),
                                      DetectionMode)
    /\ pc' = "done"
    /\ UNCHANGED <<cancel_event, use_checksum, task, all_files, pending,
                   consumed, all_uniques, all_duplicates, completed_folders,
                   logged, self_filtered, cancel_at, cmp, dataVars,
                   extensions, progress_calls, restVars>>

(***************************************************************************)
(* The caller filters a returned ScanResult against itself.                *)
(***************************************************************************)
FilterAgainstSelf ==
    /\ pc = "done"
    /\ self_filtered = NoResult
    /\ self_filtered' =
          [kind |-> "filtered"] @@
          _filter_against_base(result.uniques, result.duplicates, result)
    /\ UNCHANGED <<pc, cancel_event, use_checksum, task, all_files, pending,
                   consumed, all_uniques, all_duplicates, completed_folders,
                   logged, base_result, result, cancel_at, cmp, dataVars,
                   extensions, progress_calls, restVars>>

(***************************************************************************)
(* ScannerService.cancel, lines 21-22, called from another thread.         *)
(***************************************************************************)
Cancel ==
    /\ pc \in {"loop", "exit", "merge"}
    /\ ~cancel_event
    /\ cancel_event' = TRUE
    /\ cancel_at' = IF pc = "merge" THEN "merge"
                    ELSE IF consumed # Roots THEN "tasks" ELSE "drained"
    /\ UNCHANGED <<pc, use_checksum, task, all_files, pending, consumed,
                   all_uniques, all_duplicates, completed_folders, logged,
                   base_result, result, self_filtered, cmp, dataVars,
                   extensions, progress_calls, restVars>>

Next ==
    \/ StartScan
    \/ \E r \in Roots : TaskReturn(r)
    \/ \E r \in Roots : TaskRaise(r)
    \/ \E r \in Roots : TaskCancelled(r)
    \/ ConsumeFuture
    \/ LeavePool
    \/ MergeAndReturn
    \/ FilterAgainstSelf
    \/ Cancel

Spec == Init /\ [][Next]_vars

(***************************************************************************)
(* scan() with the folder tasks as ScannerService submits them: the pool   *)
(* calls ImageData.find_duplicates([folder], extensions,                   *)
(* progress_callback=..., controller=self, use_checksum=use_checksum).     *)
(***************************************************************************)
\* data/ImageData.py, line 88: the parameters find_duplicates declares
find_duplicates_params == <<"roots", "ext", "progress_callback", "controller">>

\* services/ScannerService.py, lines 159-166: what submit() passes on
SubmitPositional == <<"[folder]", "extensions">>
SubmitKeywords == {"progress_callback", "controller", "use_checksum"}

\* Python binds a call when every positional argument has a parameter and
\* every keyword names a parameter no positional argument filled;
\* otherwise the call raises TypeError
CallBinds(params, positional, keywords) ==
    /\ Len(positional) <= Len(params)
    /\ \A k \in keywords :
          \E i \in (Len(positional) + 1)..Len(params) : params[i] = k

\* data/ImageData.py, line 14: root_dir + '/**/*.' + ext raises TypeError
\* unless ext is a str
GlobMaskRaises(e) == e.type # "str"

\* how the submitted call ends: the future returns or holds an exception
SubmittedCallOutcome(exts) ==
    IF ~CallBinds(find_duplicates_params, SubmitPositional, SubmitKeywords)
    THEN "raised"
    ELSE IF GlobMaskRaises(PyList(exts)) THEN "raised"
    ELSE "returned"

\* The pool runs the submitted call of folder r to its end.  The call never
\* binds, so no future returns a grouping and the loop only logs failures.
RealTask(r) ==
    /\ task[r] = "running"
    /\ task' = [task EXCEPT ![r] = SubmittedCallOutcome(extensions)]
    /\ pending' = Append(pending, r)
    /\ UNCHANGED <<pc, cancel_event, use_checksum, all_files, consumed,
                   all_uniques, all_duplicates, completed_folders, logged,
                   base_result, result, self_filtered, cancel_at, cmp, dataVars,
                   extensions, progress_calls, restVars>>

\* What lies under a folder: a file is its basename, modification time,
\* size and content (named by the MD5 of the bytes).  The same picture is
\* stored as a.jpg and, renamed and touched later, as b.jpg.
DiskKinds ==
    {k \in [filename : FileNames, date : Dates, size : {1},
             exif_date : {None}, content : {"c1", "c2"}] :
        \/ k.filename = "a.jpg" /\ k.date = 1
        \/ k.filename = "b.jpg" /\ k.date = 2 /\ k.content = "c1"}

\* a folder is empty, holds one file, or holds a.jpg and b.jpg
FolderContents ==
    {<<>>} \cup {<<k>> : k \in DiskKinds}
    \cup {<<k1, k2>> : k1 \in {k \in DiskKinds : k.filename = "a.jpg"},
                      k2 \in {k \in DiskKinds : k.filename = "b.jpg"}}

InitReal ==
    /\ InitScan
    /\ IdleFind /\ IdleWindow
    /\ ~cancel_event
    /\ ExtArgs(ext)
    /\ disk \in [Roots -> FolderContents]
    /\ cmp = NoCmp /\ IdleData
    /\ IdleCheck /\ IdleResolve /\ IdleCopy

NextReal ==
    \/ StartScan
    \/ \E r \in Roots : RealTask(r)
    \/ ConsumeFuture
    \/ LeavePool
    \/ MergeAndReturn
    \/ Cancel

SpecReal == InitReal /\ [][NextReal]_vars

(***************************************************************************)
(* ScannerService.check, lines 37-44, called by worker threads while the   *)
(* user thread calls pause(), resume() and cancel().  Every read of a flag *)
(* is one step.                                                            *)
(***************************************************************************)
Callers == 1..NumCallers

NotCalled ==
    [pc |-> "idle", entry_cancel |-> FALSE, entry_pause |-> FALSE,
     blocked |-> FALSE, saw_cancel |-> FALSE, exit_cancel |-> FALSE,
     exit_pause |-> FALSE]

InitCheck ==
    /\ InitScan
    /\ IdleFind /\ IdleWindow
    /\ ext = PyStr("jpg")
    /\ disk = NoDisk
    /\ cmp = NoCmp /\ IdleData
    /\ pause_event \in BOOLEAN
    /\ checker = [c \in Callers |-> NotCalled]
    /\ IdleResolve /\ IdleCopy

\* a check() that starts with the pause loop
CheckEntry_NoCancelTest(cancelled) == "l41"

\* lines 38-39: raise when the cancel flag is set
CheckEntry(cancelled) == IF cancelled THEN "raised" ELSE "l41"

\* a check() without the pause loop
PauseLoop_NoWait(paused) == "returned"

\* line 41: the loop runs while the pause flag is set
PauseLoop(paused) == IF paused THEN "l42" ELSE "returned"

\* lines 42-44: raise when the cancel flag is set, else sleep and loop
PauseLoopBody(cancelled) == IF cancelled THEN "raised" ELSE "l41"

\* the call and its first read (line 38)
CheckCall(c) ==
    /\ checker[c].pc = "idle"
    /\ checker' = [checker EXCEPT ![c].pc = CheckEntry(cancel_event),
                                  ![c].entry_cancel = cancel_event,
                                  ![c].entry_pause = pause_event,
                                  ![c].exit_cancel = cancel_event]
    /\ UNCHANGED <<scanVars, cmp, dataVars, ext, disk, findVars, window, pause_event,
                   resolveVars, copyVars>>

\* line 41: read the pause flag
PollPause(c) ==
    /\ checker[c].pc = "l41"
    /\ checker' = [checker EXCEPT ![c].pc = PauseLoop(pause_event),
                                  ![c].blocked = @ \/ pause_event,
                                  ![c].exit_cancel = cancel_event,
                                  ![c].exit_pause = pause_event]
    /\ UNCHANGED <<scanVars, cmp, dataVars, ext, disk, findVars, window, pause_event,
                   resolveVars, copyVars>>

\* lines 42-44: read the cancel flag inside the loop
PollCancel(c) ==
    /\ checker[c].pc = "l42"
    /\ checker' = [checker EXCEPT ![c].pc = PauseLoopBody(cancel_event),
                                  ![c].saw_cancel = @ \/ cancel_event,
                                  ![c].exit_cancel = cancel_event]
    /\ UNCHANGED <<scanVars, cmp, dataVars, ext, disk, findVars, window, pause_event,
                   resolveVars, copyVars>>

\* lines 24-25
pause ==
    /\ ~pause_event
    /\ pause_event' = TRUE
    /\ UNCHANGED <<scanVars, cmp, dataVars, ext, disk, findVars, window, checker,
                   resolveVars, copyVars>>

\* lines 27-28
resume ==
    /\ pause_event
    /\ pause_event' = FALSE
    /\ UNCHANGED <<scanVars, cmp, dataVars, ext, disk, findVars, window, checker,
                   resolveVars, copyVars>>

\* lines 21-22
cancel ==
    /\ ~cancel_event
    /\ cancel_event' = TRUE
    /\ UNCHANGED <<pc, use_checksum, task, all_files, pending, consumed,
                   all_uniques, all_duplicates, completed_folders, logged,
                   base_result, result, self_filtered, cancel_at, extensions,
                   progress_calls, cmp, dataVars, ext, disk, findVars, window,
                   pause_event, checker,
                   resolveVars, copyVars>>

NextCheck ==
    \/ \E c \in Callers : CheckCall(c)
    \/ \E c \in Callers : PollPause(c)
    \/ \E c \in Callers : PollCancel(c)
    \/ pause
    \/ resume
    \/ cancel

SpecCheck == InitCheck /\ [][NextCheck]_vars

\* a thread inside check() keeps running: the loop sleeps 0.1 s and polls
FairSpecCheck ==
    /\ SpecCheck
    /\ \A c \in Callers : WF_vars(PollPause(c)) /\ WF_vars(PollCancel(c))

(***************************************************************************)
(* TargetPathResolver.resolve (data/TargetPathResolver.py, lines 25-70).   *)
(* A str is the sequence of its characters, so that strptime reads it      *)
(* character by character; a pattern is the sequence of its placeholders   *)
(* and of the text between them.                                           *)
(***************************************************************************)
PyNone == [type |-> "NoneType"]
PyFloat(v) == [type |-> "float", v |-> v]

\* bool(x) of None, a str and a number
PyTruthy(x) ==
    CASE x.type = "NoneType" -> FALSE
      [] x.type = "str" -> Len(x.v) # 0
      [] OTHER -> x.v # 0

DigitOf ==
    [ch \in {"0", "1", "2", "3", "4", "5", "6", "7", "8", "9"} |->
        CASE ch = "0" -> 0 [] ch = "1" -> 1 [] ch = "2" -> 2 [] ch = "3" -> 3
          [] ch = "4" -> 4 [] ch = "5" -> 5 [] ch = "6" -> 6 [] ch = "7" -> 7
          [] ch = "8" -> 8 [] ch = "9" -> 9]

DigitChar == <<"0", "1", "2", "3", "4", "5", "6", "7", "8", "9">>

\* the character at position i, "" past the end
CharAt(str, i) == IF i \in 1..Len(str) THEN str[i] ELSE ""

IsDigit(ch) == ch \in DOMAIN DigitOf

\* how many digits, at most max, start at position pos
DigitRun(str, pos, max) ==
    CHOOSE k \in 0..max :
        /\ \A i \in 0..(k - 1) : IsDigit(CharAt(str, pos + i))
        /\ k = max \/ ~IsDigit(CharAt(str, pos + k))

\* how many blanks start at position pos
RECURSIVE BlankRun(_, _)
BlankRun(str, pos) ==
    IF CharAt(str, pos) = " " THEN 1 + BlankRun(str, pos + 1) ELSE 0

\* the number written by the k digits at position pos
RECURSIVE NumberAt(_, _, _)
NumberAt(str, pos, k) ==
    IF k = 0 THEN 0
    ELSE 10 * NumberAt(str, pos, k - 1) + DigitOf[str[pos + k - 1]]

IsLeap(y) == (y % 4 = 0 /\ y % 100 # 0) \/ y % 400 = 0

DaysInMonth(y, m) ==
    IF m = 2 THEN (IF IsLeap(y) THEN 29 ELSE 28)
    ELSE IF m \in {4, 6, 9, 11} THEN 30 ELSE 31

NoDateTime == [ok |-> FALSE]

\* line 58: datetime.strptime(date, "%Y:%m:%d %H:%M:%S").  %Y is four
\* digits; %m, %d, %H, %M and %S are one or two digits; the blank of the
\* format matches one or more blanks; nothing may follow the seconds; a
\* field out of range or a day the month does not have raises ValueError.
strptime(str) ==
    LET ky == DigitRun(str, 1, 4)
        pm == 6
        km == DigitRun(str, pm, 2)
        pd == pm + km + 1
        kd == DigitRun(str, pd, 2)
        kb == BlankRun(str, pd + kd)
        ph == pd + kd + kb
        kh == DigitRun(str, ph, 2)
        pn == ph + kh + 1
        kn == DigitRun(str, pn, 2)
        ps == pn + kn + 1
        ks == DigitRun(str, ps, 2)
        shaped ==
            /\ ky = 4 /\ CharAt(str, 5) = ":"
            /\ km >= 1 /\ CharAt(str, pm + km) = ":"
            /\ kd >= 1 /\ kb >= 1
            /\ kh >= 1 /\ CharAt(str, ph + kh) = ":"
            /\ kn >= 1 /\ CharAt(str, pn + kn) = ":"
            /\ ks >= 1 /\ ps + ks = Len(str) + 1
    IN  IF ~shaped THEN NoDateTime
        ELSE LET y == NumberAt(str, 1, ky)
                 m == NumberAt(str, pm, km)
                 d == NumberAt(str, pd, kd)
                 h == NumberAt(str, ph, kh)
                 n == NumberAt(str, pn, kn)
                 c == NumberAt(str, ps, ks)
             IN  IF /\ y >= 1 /\ m \in 1..12 /\ h <= 23 /\ n <= 59 /\ c <= 59
                    /\ d >= 1 /\ d <= DaysInMonth(y, m)
                 THEN [ok |-> TRUE, year |-> y, month |-> m, day |-> d]
                 ELSE NoDateTime

\* line 61: datetime.fromtimestamp(date), local time at utc_offset seconds
\* east of UTC; the calendar date of the day number counted from 1970-01-01
fromtimestamp(ts, utc_offset) ==
    LET days == (ts + utc_offset) \div 86400
        z    == days + 719468
        era  == z \div 146097
        doe  == z - era * 146097
        yoe  == (doe - doe \div 1460 + doe \div 36524 - doe \div 146096)
                    \div 365
        doy  == doe - (365 * yoe + yoe \div 4 - yoe \div 100)
        mp   == (5 * doy + 2) \div 153
        d    == doy - (153 * mp + 2) \div 5 + 1
        m    == IF mp < 10 THEN mp + 3 ELSE mp - 9
        y    == yoe + era * 400 + (IF m <= 2 THEN 1 ELSE 0)
    IN  [ok |-> TRUE, year |-> y, month |-> m, day |-> d]

\* the decimal digits of n
RECURSIVE Decimal(_)
Decimal(n) ==
    IF n < 10 THEN DigitChar[n + 1]
    ELSE Decimal(n \div 10) \o DigitChar[(n % 10) + 1]

\* n in at least width digits, zero-filled
RECURSIVE ZeroFill(_, _)
ZeroFill(text, width) ==
    IF Len(text) >= width THEN text ELSE ZeroFill("0" \o text, width)

\* strftime("%Y"): the C library's; glibc does not zero-fill a year below
\* 1000, other libraries do
strftime_Y(dt, libc_pads) ==
    IF libc_pads THEN ZeroFill(Decimal(dt.year), 4) ELSE Decimal(dt.year)

\* strftime("%m") and strftime("%d")
strftime_m(dt) == ZeroFill(Decimal(dt.month), 2)
strftime_d(dt) == ZeroFill(Decimal(dt.day), 2)

\* str.replace(old, new) on a pattern
Replace(pattern, old, new) ==
    [i \in 1..Len(pattern) |-> IF pattern[i] = old THEN new ELSE pattern[i]]

\* lines 56-61: the datetime of a truthy date, or the exception
ParseDate(date, utc_offset) ==
    IF date.type = "str" THEN strptime(date.v)
    ELSE fromtimestamp(date.v, utc_offset)

\* lines 64-66: the pattern with its placeholders filled in
Substitute(pattern, dt, libc_pads) ==
    Replace(Replace(Replace(pattern,
        "{year}", strftime_Y(dt, libc_pads)),
        "{month}", strftime_m(dt)),
        "{day}", strftime_d(dt))

\* lines 40-70
resolve_target_path(date, pattern, utc_offset, libc_pads) ==
    IF ~PyTruthy(date) THEN None
    ELSE LET dt == ParseDate(date, utc_offset)
         IN  IF ~dt.ok THEN None
             ELSE JoinWith("", Substitute(pattern, dt, libc_pads))

\* line 36: the EXIF date if it is truthy, else the modification time
ChosenDate(image_data) ==
    IF PyTruthy(image_data.exif_date) THEN image_data.exif_date
    ELSE image_data.date

\* lines 25-37
resolve(image_data, pattern, utc_offset, libc_pads) ==
    resolve_target_path(ChosenDate(image_data), pattern, utc_offset, libc_pads)

(***************************************************************************)
(* The identities and patterns resolve() is applied to.                    *)
(***************************************************************************)
ExifNewYearsEve == PyStr(<<"2", "0", "2", "3", ":", "1", "2", ":", "3", "1", " ", "1", "4", ":", "3", "0", ":", "0", "0">>)
ExifPadded == PyStr(<<"2", "0", "2", "4", ":", "0", "1", ":", "0", "5", " ", "0", "9", ":", "0", "0", ":", "0", "0">>)
ExifUnpadded == PyStr(<<"2", "0", "2", "4", ":", "1", ":", "5", " ", "9", ":", "0", ":", "0">>)
ExifYearOne == PyStr(<<"0", "0", "0", "1", ":", "0", "1", ":", "0", "1", " ", "0", "0", ":", "0", "0", ":", "0", "0">>)
ExifZeros == PyStr(<<"0", "0", "0", "0", ":", "0", "0", ":", "0", "0", " ", "0", "0", ":", "0", "0", ":", "0", "0">>)
ExifFebruary30 == PyStr(<<"2", "0", "2", "3", ":", "0", "2", ":", "3", "0", " ", "1", "0", ":", "0", "0", ":", "0", "0">>)
ExifDashes == PyStr(<<"2", "0", "2", "3", "-", "1", "2", "-", "3", "1", " ", "1", "4", ":", "3", "0", ":", "0", "0">>)

ResolveExifDates ==
    {PyNone, PyStr(<<>>), ExifNewYearsEve, ExifPadded, ExifUnpadded,
     ExifYearOne, ExifZeros, ExifFebruary30, ExifDashes}

\* st_mtime: 2024-01-01 00:00:00 UTC and 2024-02-29 23:59:59 UTC
ResolveDates == {PyNone, PyFloat(0), PyFloat(1704067200), PyFloat(1709251199)}

DefaultPattern == <<"/", "{year}", "/", "{month}", "/", "{day}">>
YearMonthPattern == <<"{year}", "-", "{month}">>
FixedPattern == <<"archive">>
Patterns == {DefaultPattern, YearMonthPattern, FixedPattern}

UtcOffsets == {0, 3600}

InitResolve ==
    /\ InitScan
    /\ IdleFind /\ IdleWindow
    /\ ~cancel_event
    /\ ext = PyStr("jpg")
    /\ disk = NoDisk
    /\ cmp = NoCmp /\ IdleData
    /\ IdleCheck /\ IdleCopy
    /\ \E e \in ResolveExifDates, d \in ResolveDates, p \in Patterns,
          o \in UtcOffsets, l \in BOOLEAN :
          resolution = [stage |-> "input",
                        image_data |-> [exif_date |-> e, date |-> d],
                        pattern |-> p, utc_offset |-> o, libc_pads |-> l,
                        out |-> None]

Resolve ==
    /\ resolution.stage = "input"
    /\ resolution' =
          [resolution EXCEPT
              !.stage = "resolved",
              !.out = resolve(resolution.image_data, resolution.pattern,
                              resolution.utc_offset, resolution.libc_pads)]
    /\ UNCHANGED <<scanVars, cmp, dataVars, ext, disk, findVars, window, checkVars,
                   copyVars>>

NextResolve == Resolve

SpecResolve == InitResolve /\ [][NextResolve]_vars

(***************************************************************************)
(* CopyService (services/CopyService.py).  A file name is the sequence of  *)
(* its characters; the target tree is the set of its files, each with the  *)
(* source it was copied from.                                              *)
(***************************************************************************)
AJpg == <<"a", ".", "j", "p", "g">>
A1Jpg == <<"a", "_", "1", ".", "j", "p", "g">>

\* os.path.splitext: the extension starts at the last dot that has a
\* character other than a dot before it
splitext(name) ==
    LET cuts == {i \in 1..Len(name) :
                    /\ name[i] = "."
                    /\ \E j \in 1..(i - 1) : name[j] # "."}
    IN  IF cuts = {} THEN [base |-> name, ext |-> <<>>]
        ELSE LET cut == CHOOSE i \in cuts : \A j \in cuts : j <= i
             IN  [base |-> SubSeq(name, 1, cut - 1),
                  ext |-> SubSeq(name, cut, Len(name))]

\* the characters of str(n)
RECURSIVE DecimalChars(_)
DecimalChars(n) ==
    IF n < 10 THEN <<DigitChar[n + 1]>>
    ELSE DecimalChars(n \div 10) \o <<DigitChar[(n % 10) + 1]>>

\* a target tree in which no path is ever found
PathExists_Never(files, dir, name) == FALSE

\* os.path.exists(os.path.join(target_dir, name))
PathExists(files, dir, name) ==
    \E f \in files : f.dir = dir /\ f.name = name

\* lines 103-105: the first name base_counter.ext that does not exist
RECURSIVE RenameLoop(_, _, _, _, _)
RenameLoop(files, dir, base, extension, counter) ==
    LET name == base \o <<"_">> \o DecimalChars(counter) \o extension
    IN  IF PathExists(files, dir, name)
        THEN RenameLoop(files, dir, base, extension, counter + 1)
        ELSE name

\* lines 97-105: the name the file is written under
TargetName(files, dir, filename) ==
    IF PathExists(files, dir, filename)
    THEN LET parts == splitext(filename)
         IN  RenameLoop(files, dir, parts.base, parts.ext, 1)
    ELSE filename

\* str.lstrip('/\\') on the resolved pattern
RECURSIVE LStrip(_)
LStrip(segments) ==
    IF segments # <<>> /\ Head(segments) \in {"/", "\\"}
    THEN LStrip(Tail(segments))
    ELSE segments

\* shutil.copy2 writes, or replaces, the file at the target path
copy2(files, dir, name, source) ==
    {f \in files : ~(f.dir = dir /\ f.name = name)}
        \cup {[dir |-> dir, name |-> name, source |-> source]}

\* a source path outside the group
CopySources_Anywhere(paths) == paths \cup {<<"elsewhere">>}

\* line 96: list(paths)[0] is whichever member the set yields first
CopySources(paths) == paths

\* lines 86-109: every way one call can end.  It raises when the date path
\* is None or empty, and when copy2 fails; else it copies source_file, any
\* member of paths, to the first free name.
_copy_item(img_data, paths, job, files) ==
    LET date == ChosenDate(img_data)
        date_path == resolve(img_data, job.pattern, job.utc_offset,
                             job.libc_pads)
    IN  IF ~Truthy(date_path)
        THEN {[raised |-> TRUE, files |-> files, calls |-> <<>>]}
        ELSE LET segments == Substitute(job.pattern,
                                        ParseDate(date, job.utc_offset),
                                        job.libc_pads)
                 target_dir == job.target_root \o "/"
                                  \o JoinWith("", LStrip(segments))
                 name == TargetName(files, target_dir, img_data.filename)
                 existed == \E f \in files :
                                f.dir = target_dir /\ f.name = name
                 call(source_file, copy_ok) ==
                     [source |-> source_file, dir |-> target_dir,
                      name |-> name, existed |-> existed, ok |-> copy_ok]
             IN  {[raised |-> FALSE,
                   files |-> copy2(files, target_dir, name, source_file),
                   calls |-> <<call(source_file, TRUE)>>] :
                      source_file \in CopySources(paths)}
                 \cup
                 {[raised |-> TRUE, files |-> files,
                   calls |-> <<call(source_file, FALSE)>>] :
                      source_file \in CopySources(paths)}

\* a counter that is never incremented
ErrorCountAfter_NoIncrement(n) == n

\* lines 64 and 77
ErrorCountAfter(n) == n + 1

(***************************************************************************)
(* The scan results handed to copy_distinct_items: a picture taken on      *)
(* 2023-12-31, a second file named a_1.jpg of that day, and a picture      *)
(* whose EXIF date cannot be parsed.                                       *)
(***************************************************************************)
CopyKinds ==
    {[filename |-> AJpg, exif_date |-> ExifNewYearsEve,
      date |-> PyFloat(1704067200)],
     [filename |-> A1Jpg, exif_date |-> ExifNewYearsEve,
      date |-> PyFloat(1704067200)],
     [filename |-> AJpg, exif_date |-> ExifZeros,
      date |-> PyFloat(1704067200)]}

CopyItem(path, kind) ==
    [path |-> path, filename |-> kind.filename, exif_date |-> kind.exif_date,
     date |-> kind.date]

\* a duplicate group of two paths, keyed by the identity of the first
DuplicateGroup(i, kind) ==
    [key |-> CopyItem(<<"d", i, 1>>, kind),
     paths |-> {<<"d", i, 1>>, <<"d", i, 2>>}]

\* every scan result of n duplicate groups and m uniques
CopyResults(n, m) ==
    {[duplicates |-> [i \in 1..n |-> DuplicateGroup(i, dk[i])],
      uniques |-> [i \in 1..m |-> CopyItem(<<"u", i>>, uk[i])]] :
        dk \in [1..n -> CopyKinds], uk \in [1..m -> CopyKinds]}

\* the target tree is empty, or holds a.jpg of 2023-12-31 already
TargetTrees ==
    {{}, {[dir |-> "/target/2023/12/31", name |-> AJpg,
           source |-> <<"old">>]}}

InitCopy ==
    /\ InitScan
    /\ IdleFind /\ IdleWindow
    /\ ~cancel_event
    /\ ext = PyStr("jpg")
    /\ disk = NoDisk
    /\ cmp = NoCmp /\ IdleData
    /\ IdleCheck /\ IdleResolve
    /\ copy_pc = "idle"
    /\ copy_cancel = FALSE
    /\ \E n \in 0..MaxCopyItems : \E m \in 0..(MaxCopyItems - n) :
          \E r \in CopyResults(n, m) :
              copy_job = [kind |-> "job", scan_result |-> r,
                          target_root |-> "/target",
                          pattern |-> DefaultPattern, utc_offset |-> 0,
                          libc_pads |-> FALSE]
    /\ copy_next = 0
    /\ copied_count = 0
    /\ error_count = 0
    /\ copy_log = <<>>
    /\ target_files \in TargetTrees
    /\ copy_calls = <<>>

copyIdle == <<scanVars, cmp, dataVars, ext, disk, findVars, window, checkVars,
              resolveVars>>

\* lines 34-48
CopyStart ==
    /\ copy_pc = "idle"
    /\ copy_cancel' = FALSE
    /\ copied_count' = 0
    /\ error_count' = 0
    /\ copy_next' = 1
    /\ copy_pc' = "duplicates"
    /\ UNCHANGED <<copy_job, copy_log, target_files, copy_calls, copyIdle>>

\* lines 58-64 and 70-77: the try block around one item; the callbacks
\* return normally
CopyOneItem(loop, img_data, paths) ==
    \E done \in _copy_item(img_data, paths, copy_job, target_files) :
        /\ target_files' = done.files
        /\ copy_calls' =
              copy_calls \o [i \in 1..Len(done.calls) |->
                                [loop |-> loop, index |-> copy_next]
                                    @@ done.calls[i]]
        /\ IF done.raised
           THEN /\ error_count' = ErrorCountAfter(error_count)
                /\ copy_log' = Append(copy_log,
                                      [kind |-> "error", loop |-> loop,
                                       index |-> copy_next])
                /\ UNCHANGED copied_count
           ELSE /\ copied_count' = copied_count + 1
                /\ copy_log' = Append(copy_log,
                                      [kind |-> "copied", loop |-> loop,
                                       index |-> copy_next])
                /\ UNCHANGED error_count

\* a loop that runs to the end of its items whatever the flag says
LoopEnds_IgnoresCancel(items, next, cancelled) == next > Len(items)

\* lines 55-56 and 67-68: the loop is left when its items are exhausted or,
\* at the top of a turn, when the cancel flag is set
LoopEnds(items, next, cancelled) == next > Len(items) \/ cancelled

\* lines 55-64: one turn of the loop over the duplicate groups
CopyDuplicates ==
    /\ copy_pc = "duplicates"
    /\ LET groups == copy_job.scan_result.duplicates
       IN  IF LoopEnds(groups, copy_next, copy_cancel)
           THEN /\ copy_pc' = "uniques"
                /\ copy_next' = 1
                /\ UNCHANGED <<copied_count, error_count, copy_log,
                               target_files, copy_calls>>
           ELSE /\ CopyOneItem("duplicates", groups[copy_next].key,
                               groups[copy_next].paths)
                /\ copy_next' = copy_next + 1
                /\ UNCHANGED copy_pc
    /\ UNCHANGED <<copy_cancel, copy_job, copyIdle>>

\* lines 67-77: one turn of the loop over the uniques
CopyUniques ==
    /\ copy_pc = "uniques"
    /\ LET uniques == copy_job.scan_result.uniques
       IN  IF LoopEnds(uniques, copy_next, copy_cancel)
           THEN /\ copy_pc' = "after"
                /\ UNCHANGED <<copy_next, copied_count, error_count,
                               copy_log, target_files, copy_calls>>
           ELSE /\ CopyOneItem("uniques", uniques[copy_next],
                               {uniques[copy_next].path})
                /\ copy_next' = copy_next + 1
                /\ UNCHANGED copy_pc
    /\ UNCHANGED <<copy_cancel, copy_job, copyIdle>>

\* lines 79-81: the test of the cancel flag after the loops
CopyFinish ==
    /\ copy_pc = "after"
    /\ IF copy_cancel
       THEN /\ copy_log' = Append(copy_log, [kind |-> "cancelled"])
            /\ copy_pc' = "cancelled"
       ELSE /\ copy_pc' = "summary"
            /\ UNCHANGED copy_log
    /\ UNCHANGED <<copy_cancel, copy_job, copy_next, copied_count,
                   error_count, target_files, copy_calls, copyIdle>>

\* lines 83-84
CopySummary ==
    /\ copy_pc = "summary"
    /\ copy_log' = Append(copy_log,
                          [kind |-> "summary",
                           copied |-> copied_count,
                           errors |-> error_count])
    /\ copy_pc' = "done"
    /\ UNCHANGED <<copy_cancel, copy_job, copy_next, copied_count,
                   error_count, target_files, copy_calls, copyIdle>>

\* lines 19-20, called from the user interface thread
CopyCancel ==
    /\ copy_pc \in {"idle", "duplicates", "uniques", "after", "summary"}
    /\ ~copy_cancel
    /\ copy_cancel' = TRUE
    /\ UNCHANGED <<copy_pc, copy_job, copy_next, copied_count, error_count,
                   copy_log, target_files, copy_calls, copyIdle>>

NextCopy ==
    \/ CopyStart
    \/ CopyDuplicates
    \/ CopyUniques
    \/ CopyFinish
    \/ CopySummary
    \/ CopyCancel

SpecCopy == InitCopy /\ [][NextCopy]_vars

(***************************************************************************)
(* Evaluating a == b and hash() on two identities: the operands are drawn  *)
(* from every combination of the fields; b may be the same object as a.    *)
(***************************************************************************)
MetadataOperands(id) ==
    {MkImage(id, "metadata", <<0, id, f>>, d, z, f, e, None) :
        f \in FileNames, d \in Dates, z \in Sizes, e \in ExifDates}

ChecksumOperands(id) ==
    {MkImage(id, "checksum", <<0, id, f>>, d, z, f, e, c) :
        f \in FileNames, d \in Dates, z \in Sizes, e \in ScanExifDates,
        c \in Checksums}

Operands(id) == MetadataOperands(id) \cup ChecksumOperands(id)

InitEq ==
    /\ InitScan
    /\ IdleFind /\ IdleWindow
    /\ ~cancel_event
    /\ ext = PyStr("jpg")
    /\ disk = NoDisk
    /\ IdleCheck /\ IdleResolve /\ IdleCopy /\ IdleData
    /\ \E a \in Operands(1) : \E b \in Operands(2) \cup {a} :
          cmp = [stage |-> "operands", a |-> a, b |-> b,
                 eq |-> "unset", hash_a |-> <<>>, hash_b |-> <<>>]

PyBool(v) == IF v THEN "True" ELSE "False"

\* a == b and b == a
EvalEq ==
    /\ cmp.stage # "none"
    /\ cmp.eq = "unset"
    /\ cmp' = [cmp EXCEPT !.stage = "evaluated",
                          !.eq = PyBool(PyEq(cmp.a, cmp.b))]
    /\ UNCHANGED <<scanVars, dataVars, restVars>>

\* hash(a) and hash(b)
EvalHash ==
    /\ cmp.stage # "none"
    /\ cmp.hash_a = <<>>
    /\ cmp' = [cmp EXCEPT !.stage = "evaluated",
                          !.hash_a = PyHash(cmp.a),
                          !.hash_b = PyHash(cmp.b)]
    /\ UNCHANGED <<scanVars, dataVars, restVars>>

NextEq == EvalEq \/ EvalHash

SpecEq == InitEq /\ [][NextEq]_vars

(***************************************************************************)
(* ImageData.find_duplicates at the level of its threads                   *)
(* (data/ImageData.py, lines 12-52 and 88-138): the thread running the     *)
(* call enumerates the roots and consumes the futures, the pool's workers  *)
(* run process_image.  Two roots are given, either to one call             *)
(* (find_duplicates(roots, ext, controller=service)) or, as                *)
(* _scan_folders_parallel hands them out (ScannerService.py, lines         *)
(* 158-166), to one call per folder with roots = [folder].  The calls run  *)
(* as their signature lets them be called, with the service as controller  *)
(* and no pause.                                                           *)
(***************************************************************************)
\* a file under a root: canonical path, what a probe finds in it, and
\* whether Image.open can read it
FindFile(r, slot, kind, readable) ==
    [path |-> <<r, slot, kind.filename>>, kind |-> kind,
     readable |-> readable]

FilesAt(r, slot) ==
    {FindFile(r, slot, k, TRUE) : k \in FileKinds(FALSE)}
    \cup {FindFile(r, slot, k, FALSE) :
            k \in {k \in FileKinds(FALSE) :
                     k.filename = "a.jpg" /\ k.exif_date = None}}

\* what glob lists under root 1 and under root 2: two separate folders, a
\* folder and a subfolder of it, or the same folder given twice
Trees ==
    {<<(<<a>>), (<<b>>)>> : a \in FilesAt(1, 1), b \in FilesAt(2, 1)}
    \cup {<<(<<a, b>>), (<<b>>)>> : a \in FilesAt(1, 1), b \in FilesAt(1, 2)}
    \cup {<<(<<a, b>>), (<<a, b>>)>> :
            a \in FilesAt(1, 1), b \in FilesAt(1, 2)}

\* lines 89-90 and 97: the locals of a call that has just started
NewCall(roots) ==
    [roots |-> roots, stage |-> "roots", root |-> 1, next |-> 1,
     visited_paths |-> {}, all_paths |-> <<>>, futures |-> <<>>,
     ready |-> <<>>, i |-> 0, progress |-> <<>>, all_files |-> <<>>,
     result |-> NoResult]

InitFind ==
    /\ InitScan
    /\ ~cancel_event
    /\ ext = PyStr("jpg")
    /\ disk = NoDisk
    /\ cmp = NoCmp /\ IdleData
    /\ IdleCheck /\ IdleResolve /\ IdleCopy /\ IdleWindow
    /\ tree \in Trees
    /\ events = {}
    /\ \/ /\ calls = <<NewCall(<<1, 2>>)>>
          /\ find_scan = "direct"
       \/ /\ calls = <<NewCall(<<1>>), NewCall(<<2>>)>>
          /\ find_scan = "running"

findIdle == <<scanVars, cmp, dataVars, ext, disk, window, checkVars, resolveVars,
              copyVars>>

\* a controller that never raises
check_Never(cancelled) == "returned"

\* ScannerService.check (lines 37-44) as find_duplicates calls it, with the
\* pause flag clear: "raised" or "returned"
check(cancelled) ==
    IF CheckEntry(cancelled) = "raised" THEN "raised" ELSE PauseLoop(FALSE)

\* lines 93-95 and 99-101: the loop over the roots, with the controller
\* checked before each root; after the last root every path is submitted
NextRoot(c) ==
    LET call == calls[c]
    IN  /\ call.stage = "roots"
        /\ IF call.root > Len(call.roots)
           THEN calls' = [calls EXCEPT
                            ![c].stage = "pool",
                            ![c].futures =
                                [j \in 1..Len(call.all_paths) |-> "queued"]]
           ELSE IF check(cancel_event) = "raised"
           THEN calls' = [calls EXCEPT ![c].stage = "cancelled"]
           ELSE calls' = [calls EXCEPT ![c].stage = "glob", ![c].next = 1]
        /\ UNCHANGED <<tree, events, find_scan, findIdle>>

\* collect_paths, lines 16-27: one turn of the loop over what glob yields
EnumeratePath(c) ==
    LET call == calls[c]
        listing == tree[call.roots[call.root]]
    IN  /\ call.stage = "glob"
        /\ IF call.next > Len(listing)
           THEN /\ calls' = [calls EXCEPT ![c].stage = "roots",
                                          ![c].root = @ + 1]
                /\ UNCHANGED events
           ELSE LET file == listing[call.next]
                IN  IF check(cancel_event) = "raised"
                    THEN /\ calls' = [calls EXCEPT ![c].stage = "cancelled"]
                         /\ UNCHANGED events
                    ELSE IF file.path \in call.visited_paths
                    THEN /\ calls' = [calls EXCEPT ![c].next = @ + 1]
                         /\ UNCHANGED events
                    ELSE /\ calls' =
                              [calls EXCEPT
                                 ![c].next = @ + 1,
                                 ![c].visited_paths = @ \cup {file.path},
                                 ![c].all_paths = Append(@, file)]
                         /\ events' = events \cup
                               {[kind |-> "add", call |-> c,
                                 index |-> Len(call.all_paths) + 1,
                                 path |-> file.path,
                                 cancelled |-> cancel_event]}
        /\ UNCHANGED <<tree, find_scan, findIdle>>

\* process_image, lines 30-31: a worker begins the call for path j and checks
\* the controller
ProbeBegin(c, j) ==
    LET call == calls[c]
    IN  /\ j \in DOMAIN call.futures
        /\ call.futures[j] = "queued"
        /\ IF check(cancel_event) = "raised"
           THEN calls' = [calls EXCEPT ![c].futures[j] = "cancelled",
                                       ![c].ready = Append(@, j)]
           ELSE calls' = [calls EXCEPT
                            ![c].futures[j] =
                                IF cancel_event THEN "late" ELSE "checked"]
        /\ UNCHANGED <<tree, events, find_scan, findIdle>>

\* process_image, lines 33-52: open and stat the file; an unreadable file
\* yields None
ProbeOpen(c, j) ==
    LET call == calls[c]
    IN  /\ j \in DOMAIN call.futures
        /\ call.futures[j] \in {"checked", "late"}
        /\ calls' = [calls EXCEPT
                       ![c].futures[j] =
                           IF call.all_paths[j].readable THEN "identity"
                           ELSE "none",
                       ![c].ready = Append(@, j)]
        /\ events' = events \cup
              {[kind |-> "open", call |-> c, index |-> j,
                path |-> call.all_paths[j].path,
                cancelled |-> (call.futures[j] = "late")]}
        /\ UNCHANGED <<tree, find_scan, findIdle>>

\* the loop index handed on as it is
ProgressArgs_ZeroBased(i, total_files) ==
    [completed |-> i, total |-> total_files]

\* lines 108-109: progress_callback(i + 1, total_files), i counting from 0
ProgressArgs(i, total_files) ==
    [completed |-> i + 1, total |-> total_files]

\* a loop that appends whatever a probe left, the file of a failed one too
KeepProbe_Always(outcome) == TRUE

\* lines 111-116: `if img_data:` drops a None, the handler drops a probe
\* that raised
KeepProbe(outcome) == outcome = "identity"

\* lines 105-116: one turn of the as_completed loop
\* the identity a probe of call c built for a file: every probe builds a new
\* object, so the probes of two calls never share one
ProbedBy(c, file) ==
    [process_image(file.path[1], file.path[2], file.kind)
        EXCEPT !.id = 100 * c + @]

ConsumeProbe(c) ==
    LET call == calls[c]
    IN  /\ call.stage = "pool"
        /\ call.ready # <<>>
        /\ IF check(cancel_event) = "raised"
           THEN calls' = [calls EXCEPT ![c].stage = "aborting"]
           ELSE LET j == Head(call.ready)
                    file == call.all_paths[j]
                IN  calls' =
                      [calls EXCEPT
                         ![c].ready = Tail(@),
                         ![c].i = @ + 1,
                         ![c].progress =
                             Append(@, ProgressArgs(call.i,
                                                    Len(call.all_paths))),
                         ![c].all_files =
                             IF KeepProbe(call.futures[j])
                             THEN Append(@, ProbedBy(c, file))
                             ELSE @]
        /\ UNCHANGED <<tree, events, find_scan, findIdle>>

\* line 99 (leaving the `with` waits for every worker), lines 118-119 (the
\* last progress call) and lines 121-138
PoolExit(c) ==
    LET call == calls[c]
    IN  /\ \/ /\ call.stage = "pool"
              /\ call.i = Len(call.all_paths)
              /\ calls' = [calls EXCEPT
                             ![c].stage = "returned",
                             ![c].progress =
                                 Append(@, [completed |-> Len(call.all_paths),
                                            total |-> Len(call.all_paths)]),
                             ![c].result = find_duplicates(call.all_files)]
           \/ /\ call.stage = "aborting"
              /\ \A j \in DOMAIN call.futures :
                    call.futures[j] \in {"identity", "none", "cancelled"}
              /\ calls' = [calls EXCEPT ![c].stage = "cancelled"]
        /\ UNCHANGED <<tree, events, find_scan, findIdle>>

\* ScannerService._scan_folders_parallel, lines 154 and 191-194: every folder
\* task has ended and the scan looks at the cancel flag
\* a pool that is left at the break of line 170 with tasks still running
FindLeavePool_NoWait ==
    /\ find_scan = "running"
    /\ \/ cancel_event
       \/ \A c \in DOMAIN calls : calls[c].stage \in {"returned", "cancelled"}
    /\ find_scan' = AfterPool(cancel_event)
    /\ UNCHANGED <<tree, calls, events, findIdle>>

FindLeavePool ==
    /\ find_scan = "running"
    /\ \A c \in DOMAIN calls : calls[c].stage \in {"returned", "cancelled"}
    /\ find_scan' = AfterPool(cancel_event)
    /\ UNCHANGED <<tree, calls, events, findIdle>>

\* the orders in which as_completed can hand the folder futures over
CompletionOrders ==
    {o \in [DOMAIN calls -> DOMAIN calls] :
        \A c, e \in DOMAIN calls : c # e => o[c] # o[e]}

\* ScannerService._scan_folders_parallel, lines 169-186, for futures that
\* all returned
RECURSIVE AggregateCalls(_, _, _)
AggregateCalls(acc, order, k) ==
    IF k > Len(order) THEN acc
    ELSE LET folder == calls[order[k]].result
         IN  AggregateCalls(
                 [uniques |-> AggregateUniques(acc.uniques, folder.uniques),
                  duplicates |-> AggregateDuplicates(acc.duplicates,
                                                     folder.duplicates, 1)],
                 order, k + 1)

\* ScannerService.scan, lines 86-105, without a baseline
FindMerge ==
    /\ find_scan = "merge"
    /\ \E order \in CompletionOrders :
          LET all == AggregateCalls([uniques |-> <<>>, duplicates |-> <<>>],
                                    order, 1)
              final == _merge_folder_results(all.uniques, all.duplicates)
          IN  result' = ScanResult(final.uniques, final.duplicates,
                                   <<1, 2>>, "jpg", "metadata")
    /\ find_scan' = "done"
    /\ UNCHANGED <<pc, cancel_event, use_checksum, task, all_files, pending,
                   consumed, all_uniques, all_duplicates, completed_folders,
                   logged, base_result, self_filtered, cancel_at, extensions,
                   progress_calls, cmp, dataVars, ext, disk, window, checkVars,
                   resolveVars, copyVars, tree, calls, events>>

NextFind ==
    \/ \E c \in DOMAIN calls : NextRoot(c)
    \/ \E c \in DOMAIN calls : EnumeratePath(c)
    \/ \E c \in DOMAIN calls : \E j \in DOMAIN calls[c].futures :
          ProbeBegin(c, j)
    \/ \E c \in DOMAIN calls : \E j \in DOMAIN calls[c].futures :
          ProbeOpen(c, j)
    \/ \E c \in DOMAIN calls : ConsumeProbe(c)
    \/ \E c \in DOMAIN calls : PoolExit(c)
    \/ FindLeavePool
    \/ FindMerge
    \/ cancel

SpecFind == InitFind /\ [][NextFind]_vars

(***************************************************************************)
(* MainWindow (ui/MainWindow.py): _start_scan (lines 101-127) starts the   *)
(* thread that runs _run_scan_thread (lines 179-212) around               *)
(* ScannerService.scan; what the thread schedules with self.after is run   *)
(* by Tk's main loop in the order it was scheduled.                        *)
(***************************************************************************)
\* what File > Import scan result loads from a file (lines 270-279), and
\* what _auto_load_results (lines 285-292) found when the window opened
ImportedResult == ScanResult(<<>>, <<>>, <<0>>, "jpg", "metadata")

InitWindow ==
    /\ InitScan
    /\ IdleFind
    /\ ~cancel_event
    /\ \E s \in ExtStrings : ext = PyStr(s)
    /\ disk = NoDisk
    /\ cmp = NoCmp /\ IdleData
    /\ IdleCheck /\ IdleResolve /\ IdleCopy
    /\ \E loaded \in {NoResult, ImportedResult} :
          window = [thread |-> "idle", current_scan_result |-> loaded,
                    processing |-> FALSE, after |-> <<>>, completed |-> 0]

windowIdle == <<scanVars, cmp, dataVars, ext, disk, findVars, checkVars, resolveVars,
                copyVars>>

\* lines 101-127: Actions > Scan files, with folders in the list; an empty
\* extension entry is refused (lines 107-110)
_start_scan ==
    /\ window.thread = "idle"
    /\ PyTruthy(ext)
    /\ window' = [window EXCEPT !.current_scan_result = NoResult,
                                !.processing = TRUE,
                                !.thread = "running"]
    /\ UNCHANGED windowIdle

\* lines 188-195: the thread is inside scanner_service.scan(); the Cancel
\* menu entry (lines 249-250) calls ScannerService.cancel
ScanRuns ==
    /\ window.thread = "running"
    /\ NextReal

\* lines 248-251: Actions > Cancel, enabled by _set_processing(True) at
\* line 120, chosen after the thread was started (line 127) and before the
\* thread has run the first line of scan()
_cancel_processing ==
    /\ window.thread = "running"
    /\ window.processing
    /\ pc = "idle"
    /\ ~cancel_event
    /\ cancel_event' = TRUE
    /\ cancel_at' = "entry"
    /\ UNCHANGED <<pc, use_checksum, task, all_files, pending, consumed,
                   all_uniques, all_duplicates, completed_folders, logged,
                   base_result, result, self_filtered, cmp, dataVars,
                   extensions, progress_calls, restVars>>

\* log_cb and progress_cb call self.after from the scan thread (lines
\* 181-185); when Tk refuses the call the exception leaves scan()
CallbackRaises ==
    /\ window.thread = "running"
    /\ pc \in {"loop", "exit", "merge"}
    /\ pc' = "failed"
    /\ UNCHANGED <<cancel_event, use_checksum, task, all_files, pending,
                   consumed, all_uniques, all_duplicates, completed_folders,
                   logged, base_result, result, self_filtered, cancel_at, cmp,
                   dataVars,
                   extensions, progress_calls, restVars>>

\* a finally block that can always build its callback
ResultBound_Always(scan_pc) == TRUE

\* line 212: `lambda r=result: ...` reads the local result when the lambda
\* is built; the local is bound only when scan() returned (line 188)
ResultBound(scan_pc) == scan_pc = "done"

\* lines 200-212: the handlers and the finally block of _run_scan_thread;
\* building the last callback with result unbound raises UnboundLocalError
\* and ends the thread
ThreadEnds ==
    /\ window.thread = "running"
    /\ pc \in {"done", "cancelled", "failed"}
    /\ LET handler ==
               IF pc = "cancelled"
               THEN <<[fn |-> "status_label", arg |-> "Scan Cancelled"],
                      [fn |-> "_log", arg |-> "Scan cancelled by user."]>>
               ELSE IF pc = "failed"
               THEN <<[fn |-> "status_label", arg |-> "Error"],
                      [fn |-> "_log", arg |-> "Error"]>>
               ELSE <<>>
           finally ==
               <<[fn |-> "_set_processing", arg |-> "False"],
                 [fn |-> "animation_panel.stop", arg |-> ""]>>
       IN  IF ResultBound(pc)
           THEN window' =
                  [window EXCEPT
                     !.thread = "ended",
                     !.after = @ \o handler \o finally \o
                               <<[fn |-> "_on_scan_complete",
                                  arg |-> result]>>]
           ELSE window' =
                  [window EXCEPT !.thread = "died",
                                 !.after = @ \o handler \o finally]
    /\ UNCHANGED windowIdle

\* Tk's main loop runs the oldest scheduled callback; _on_scan_complete
\* (lines 214-218) stores the result
RunCallback ==
    /\ window.thread # "none"
    /\ window.after # <<>>
    /\ LET callback == Head(window.after)
       IN  window' =
             [window EXCEPT
                !.after = Tail(@),
                !.processing =
                    IF callback.fn = "_set_processing" THEN FALSE ELSE @,
                !.current_scan_result =
                    IF callback.fn = "_on_scan_complete" THEN callback.arg
                    ELSE @,
                !.completed =
                    IF callback.fn = "_on_scan_complete" THEN @ + 1 ELSE @]
    /\ UNCHANGED windowIdle

\* lines 270-282: File > Import scan result, which stays enabled while a
\* scan runs (_set_processing, lines 220-236, disables Actions entries only)
_load_results ==
    /\ window.thread # "none"
    /\ window.current_scan_result # ImportedResult
    /\ window' = [window EXCEPT !.current_scan_result = ImportedResult]
    /\ UNCHANGED windowIdle

NextWindow ==
    \/ _start_scan
    \/ _cancel_processing
    \/ ScanRuns
    \/ CallbackRaises
    \/ ThreadEnds
    \/ RunCallback
    \/ _load_results

SpecWindow == InitWindow /\ [][NextWindow]_vars

(***************************************************************************)
(* ChecksumImageData (src/data/ChecksumImageData.py): the lazily computed  *)
(* checksum.  Two instances live in `instances.objs`, their index is their *)
(* identity; `calculated` counts the runs of calculate_checksum made for   *)
(* an instance, `instances.ops` the calls made so far and `instances.last` *)
(* holds the last call and what it returned.                               *)
(***************************************************************************)
MaxOps == 3

InstancePath(x) == IF x = 1 THEN "/r/a.jpg" ELSE "/r/b.jpg"

\* __init__, lines 14-27; `readable` and `content` describe the file at path
NewInstance(path, readable, content, checksum) ==
    [path |-> path, readable |-> readable, content |-> content, size |-> 1,
     _checksum |-> checksum, calculated |-> 0]

InitChecksum ==
    /\ InitScan
    /\ IdleFind /\ IdleWindow
    /\ ~cancel_event
    /\ ext = PyStr("jpg")
    /\ disk = NoDisk
    /\ cmp = NoCmp /\ IdleFrame /\ IdleStore
    /\ IdleCheck /\ IdleResolve /\ IdleCopy
    /\ \E p1 \in {None, InstancePath(1)}, p2 \in {None, InstancePath(2)},
          r1, r2 \in BOOLEAN, c2 \in {"c1", "c2"}, k1, k2 \in {None, "c1"} :
          instances = [objs |-> <<NewInstance(p1, r1, "c1", k1),
                                  NewInstance(p2, r2, c2, k2)>>,
                       ops |-> 0,
                       last |-> [op |-> "none"]]

\* calculate_checksum, lines 36-57: the digest of the content, None when
\* opening or reading the file raises
calculate_checksum(self) == IF self.readable THEN self.content ELSE None

\* the checksum property, lines 29-34: the object after the read; the value
\* read is its _checksum
checksum(self) ==
    IF self._checksum = None /\ Truthy(self.path)
    THEN [self EXCEPT !._checksum = calculate_checksum(self),
                      !.calculated = @ + 1]
    ELSE self

ChecksumRead(objs, x) == [objs EXCEPT ![x] = checksum(objs[x])]

\* __eq__, lines 59-73, both operands instances of ChecksumImageData
Checksum__eq__(objs, x, y) ==
    IF x = y THEN [objs |-> objs, result |-> "True"]
    ELSE LET o1 == ChecksumRead(objs, x)
             o2 == ChecksumRead(o1, y)
         IN  IF /\ o2[x]._checksum = o2[y]._checksum
                /\ o2[x].size = o2[y].size
             THEN LET o3 == ChecksumRead(o2, x)
                  IN  [objs |-> o3,
                       result |-> PyBool(o3[x]._checksum # None)]
             ELSE [objs |-> o2, result |-> "False"]

\* __hash__, lines 75-88
Checksum__hash__(objs, x) ==
    LET o1 == ChecksumRead(objs, x)
    IN  IF Truthy(o1[x]._checksum)
        THEN [objs |-> ChecksumRead(o1, x), result |-> "checksum"]
        ELSE [objs |-> o1, result |-> "metadata"]

checksumIdle == <<scanVars, cmp, frame, store, ext, disk, findVars, window,
                  checkVars, resolveVars, copyVars>>

\* instance.checksum
ReadChecksum(x) ==
    /\ instances.ops < MaxOps
    /\ LET objs == ChecksumRead(instances.objs, x)
       IN  instances' = [objs |-> objs, ops |-> instances.ops + 1,
                         last |-> [op |-> "checksum", self |-> x,
                                   result |-> objs[x]._checksum]]
    /\ UNCHANGED checksumIdle

\* instance == other
TestEquality(x, y) ==
    /\ instances.ops < MaxOps
    /\ LET out == Checksum__eq__(instances.objs, x, y)
       IN  instances' = [objs |-> out.objs, ops |-> instances.ops + 1,
                         last |-> [op |-> "__eq__", self |-> x,
                                   result |-> out.result]]
    /\ UNCHANGED checksumIdle

\* hash(instance)
TakeHash(x) ==
    /\ instances.ops < MaxOps
    /\ LET out == Checksum__hash__(instances.objs, x)
       IN  instances' = [objs |-> out.objs, ops |-> instances.ops + 1,
                         last |-> [op |-> "__hash__", self |-> x,
                                   result |-> out.result]]
    /\ UNCHANGED checksumIdle

NextChecksum ==
    \/ \E x \in 1..2 : ReadChecksum(x)
    \/ \E x \in 1..2, y \in 1..2 : TestEquality(x, y)
    \/ \E x \in 1..2 : TakeHash(x)

SpecChecksum == InitChecksum /\ [][NextChecksum]_vars

(***************************************************************************)
(* The scan with pause(), resume() and cancel() called while it runs.      *)
(* NextRoot, EnumeratePath, ProbeBegin and ConsumeProbe each begin with    *)
(* controller.check(), which does not come back while the pause flag is    *)
(* set and the cancel flag is not (ScannerService lines 41-44): such a     *)
(* step is taken when its check() ends.  The threads of the two pools are  *)
(* scheduled fairly and every step of theirs terminates.                   *)
(***************************************************************************)
InitPausable ==
    /\ InitFind
    /\ find_scan = "running"
    /\ Len(tree[1]) = 1

\* a pause loop that does not look at the cancel flag
Blocked_UntilResumed == pause_event

\* ScannerService.check, lines 38-44: no return and no raise
Blocked == pause_event /\ ~cancel_event

CheckedStep ==
    /\ ~Blocked
    /\ \/ \E c \in DOMAIN calls : NextRoot(c)
       \/ \E c \in DOMAIN calls : EnumeratePath(c)
       \/ \E c \in DOMAIN calls : \E j \in DOMAIN calls[c].futures :
             ProbeBegin(c, j)
       \/ \E c \in DOMAIN calls : ConsumeProbe(c)

UncheckedStep ==
    \/ \E c \in DOMAIN calls : \E j \in DOMAIN calls[c].futures :
          ProbeOpen(c, j)
    \/ \E c \in DOMAIN calls : PoolExit(c)
    \/ FindLeavePool
    \/ FindMerge

ScanStep == CheckedStep \/ UncheckedStep

NextPausable ==
    \/ ScanStep
    \/ pause
    \/ resume
    \/ cancel

FairSpecPausable ==
    InitPausable /\ [][NextPausable]_vars /\ WF_vars(ScanStep)

(***************************************************************************)
(* The path sets of a merge as objects.  `frame.heap` is the sequence of   *)
(* all set objects, a set is referred to by its index; the duplicates      *)
(* dicts hold entries [key, ref].  `frame.returned` is the heap as it was  *)
(* when the folder tasks had returned and the baseline was loaded.         *)
(* ScannerService lines 177-184 (aggregation), 209-232 (merge) and 248-261 *)
(* (baseline filter), for two folders.                                     *)
(***************************************************************************)
MaxFolderFiles == 2

\* the sets of a dict put on the heap: its entries with references
RECURSIVE StoreGroups(_, _, _)
StoreGroups(st, dups, i) ==
    IF i > Len(dups) THEN st
    ELSE StoreGroups(
             [heap |-> Append(st.heap, dups[i].paths),
              entries |-> Append(st.entries,
                                 [key |-> dups[i].key,
                                  ref |-> Len(st.heap) + 1])],
             dups, i + 1)

StoredResult(heap, r) ==
    LET st == StoreGroups([heap |-> heap, entries |-> <<>>], r.duplicates, 1)
    IN  [heap |-> st.heap,
         result |-> [uniques |-> r.uniques, duplicates |-> st.entries]]

InitFrame ==
    /\ InitScan
    /\ IdleFind /\ IdleWindow
    /\ ~cancel_event
    /\ ext = PyStr("jpg")
    /\ disk = NoDisk
    /\ cmp = NoCmp
    /\ instances = <<>> /\ IdleStore
    /\ IdleCheck /\ IdleResolve /\ IdleCopy
    /\ \E f1, f2 \in FileLists(FALSE, MaxFolderFiles) :
       \E base \in BaseResults(FALSE) :
          LET s1 == StoredResult(<<>>,
                                 find_duplicates(ProbeAll(FALSE, 1, f1)))
              s2 == StoredResult(s1.heap,
                                 find_duplicates(ProbeAll(FALSE, 2, f2)))
              sb == StoredResult(s2.heap, base)
          IN  frame = [pc |-> "loop",
                       heap |-> sb.heap,
                       returned |-> sb.heap,
                       folders |-> <<s1.result, s2.result>>,
                       base |-> sb.result,
                       consumed |-> {},
                       all_uniques |-> <<>>,
                       all_duplicates |-> <<>>,
                       merged |-> NoResult,
                       filtered |-> NoResult]

\* a dict that stores the folder's own set
PathsCopy_Alias(heap, ref) == [heap |-> heap, ref |-> ref]

\* line 184, paths.copy(): a new set with the same elements
PathsCopy(heap, ref) ==
    [heap |-> Append(heap, heap[ref]), ref |-> Len(heap) + 1]

\* lines 180-184
RECURSIVE AggregateRefs(_, _, _)
AggregateRefs(st, folder_duplicates, i) ==
    IF i > Len(folder_duplicates) THEN st
    ELSE LET e == folder_duplicates[i]
             k == DictFind(st.d, e.key)
         IN  AggregateRefs(
                 IF k # 0
                 THEN [heap |-> [st.heap EXCEPT ![st.d[k].ref] =
                                     @ \cup st.heap[e.ref]],
                       d |-> st.d]
                 ELSE LET copy == PathsCopy(st.heap, e.ref)
                      IN  [heap |-> copy.heap,
                           d |-> Append(st.d, [key |-> e.key,
                                               ref |-> copy.ref])],
                 folder_duplicates, i + 1)

\* lines 213-214: image_map[img_data] = paths, the aggregate's own set
RECURSIVE SeedRefs(_, _, _)
SeedRefs(image_map, all_dups, i) ==
    IF i > Len(all_dups) THEN image_map
    ELSE LET k == DictFind(image_map, all_dups[i].key)
         IN  SeedRefs(IF k # 0
                      THEN [image_map EXCEPT ![k].ref = all_dups[i].ref]
                      ELSE Append(image_map, all_dups[i]),
                      all_dups, i + 1)

\* lines 217-221
RECURSIVE FoldRefs(_, _, _)
FoldRefs(st, uniques, i) ==
    IF i > Len(uniques) THEN st
    ELSE LET u == uniques[i]
             k == DictFind(st.d, u)
         IN  FoldRefs(
                 IF k # 0
                 THEN [heap |-> [st.heap EXCEPT ![st.d[k].ref] =
                                     @ \cup {u.path}],
                       d |-> st.d]
                 ELSE [heap |-> Append(st.heap, {u.path}),
                       d |-> Append(st.d, [key |-> u,
                                           ref |-> Len(st.heap) + 1])],
                 uniques, i + 1)

\* lines 224-232
SplitRefs(st) ==
    LET Many(e) == Cardinality(st.heap[e.ref]) > 1
        One(e) == ~Many(e)
    IN  [uniques |-> EntryKeys(SelectSeq(st.d, One)),
         duplicates |-> SelectSeq(st.d, Many)]

frameIdle == <<scanVars, cmp, instances, store, ext, disk, findVars, window,
               checkVars, resolveVars, copyVars>>

\* lines 169-186: the loop takes the future of folder r
FrameAggregate(r) ==
    /\ frame.pc = "loop"
    /\ r \notin frame.consumed
    /\ LET st == AggregateRefs([heap |-> frame.heap,
                                d |-> frame.all_duplicates],
                               frame.folders[r].duplicates, 1)
       IN  frame' = [frame EXCEPT
                       !.heap = st.heap,
                       !.all_duplicates = st.d,
                       !.all_uniques =
                           AggregateUniques(@, frame.folders[r].uniques),
                       !.consumed = @ \cup {r}]
    /\ UNCHANGED frameIdle

\* _merge_folder_results
FrameMerge ==
    /\ frame.pc = "loop"
    /\ frame.consumed = DOMAIN frame.folders
    /\ LET st == FoldRefs([heap |-> frame.heap,
                           d |-> SeedRefs(<<>>, frame.all_duplicates, 1)],
                          frame.all_uniques, 1)
       IN  frame' = [frame EXCEPT !.heap = st.heap,
                                  !.merged = SplitRefs(st),
                                  !.pc = "merged"]
    /\ UNCHANGED frameIdle

\* _filter_against_base: the retained entries keep their set objects
FrameFilter ==
    /\ frame.pc = "merged"
    /\ frame' = [frame EXCEPT
                   !.filtered =
                       _filter_against_base(frame.merged.uniques,
                                            frame.merged.duplicates,
                                            frame.base),
                   !.pc = "filtered"]
    /\ UNCHANGED frameIdle

NextFrame ==
    \/ \E r \in DOMAIN frame.folders : FrameAggregate(r)
    \/ FrameMerge
    \/ FrameFilter

SpecFrame == InitFrame /\ [][NextFrame]_vars

(***************************************************************************)
(* ScanResultStorage (src/data/storage.py): save_results and load_results. *)
(* `store.file` is the storage file: missing, corrupted (not JSON) or the  *)
(* JSON document save_results wrote; `store.saved` is the ScanResult given *)
(* to save_results, `store.returned` what the last save returned,          *)
(* `store.read` the file as load_results found it and `store.loaded` what  *)
(* that load returned.  A JSON object is a record, a key it does not have  *)
(* is Absent.                                                              *)
(***************************************************************************)
MaxStoredItems == 2

Absent == "<absent>"

\* the identities of a stored result: with and without EXIF date, with a
\* checksum and with a checksum that could not be computed
StoredKinds ==
    {[variant |-> "metadata", exif_date |-> None, checksum |-> None],
     [variant |-> "metadata", exif_date |-> "2023:12:31 14:30:00",
      checksum |-> None],
     [variant |-> "checksum", exif_date |-> None, checksum |-> "c1"],
     [variant |-> "checksum", exif_date |-> None, checksum |-> None]}

StoredImage(id, k) ==
    MkImage(id, k.variant, <<0, id, "a.jpg">>, 1, 1, "a.jpg", k.exif_date,
            k.checksum)

StoredUniques ==
    UNION {{[i \in 1..n |-> StoredImage(i, ks[i])] : ks \in [1..n -> StoredKinds]} :
             n \in 0..MaxStoredItems}

StoredGroup(id, k) ==
    [key |-> StoredImage(id, k),
     paths |-> {<<0, id, "a.jpg">>, <<0, id + 1, "a.jpg">>}]

\* dicts of at most two groups: two keys of one dict never match
StoredDuplicates ==
    {<<>>} \cup {<<StoredGroup(11, k)>> : k \in StoredKinds}
    \cup {d \in {<<StoredGroup(11, k1), StoredGroup(13, k2)>> :
                    k1 \in StoredKinds, k2 \in StoredKinds} :
            ~KeyMatch(d[1].key, d[2].key)}

\* ScanResult.__init__ with a timestamp
StampedResult(uniques, dups, mode, timestamp) ==
    ScanResult(uniques, dups, <<"/r1", "/r2">>, "jpg", mode)
        @@ [timestamp |-> timestamp]

InitStore ==
    /\ InitScan
    /\ IdleFind /\ IdleWindow
    /\ ~cancel_event
    /\ ext = PyStr("jpg")
    /\ disk = NoDisk
    /\ cmp = NoCmp
    /\ instances = <<>> /\ IdleFrame
    /\ IdleCheck /\ IdleResolve /\ IdleCopy
    /\ \E u \in StoredUniques, d \in StoredDuplicates,
          mode \in {"metadata", "checksum"} :
          store = [pc |-> "ready",
                   file |-> [kind |-> "missing"],
                   saved |-> StampedResult(u, d, mode, 1),
                   returned |-> "none",
                   read |-> [kind |-> "unread"],
                   loaded |-> [kind |-> "unloaded"]]

\* lines 13-28: the checksum key is written only for an object that has a
\* _checksum attribute whose value is not None
_serialize_image_data(img_data) ==
    [path |-> img_data.path, date |-> img_data.date, size |-> img_data.size,
     filename |-> img_data.filename, exif_date |-> img_data.exif_date,
     checksum |-> IF img_data.variant = "checksum" /\ img_data.checksum # None
                  THEN img_data.checksum
                  ELSE Absent]

\* lines 30-52: a new object, of the class the checksum key decides
_deserialize_image_data(data_dict, id) ==
    IF data_dict.checksum # Absent /\ data_dict.checksum # None
    THEN MkImage(id, "checksum", data_dict.path, data_dict.date,
                 data_dict.size, data_dict.filename, data_dict.exif_date,
                 data_dict.checksum)
    ELSE MkImage(id, "metadata", data_dict.path, data_dict.date,
                 data_dict.size, data_dict.filename, data_dict.exif_date,
                 None)

\* list(paths): the elements of a set in some order
RECURSIVE ListOf(_)
ListOf(S) ==
    IF S = {} THEN <<>>
    ELSE LET x == CHOOSE x \in S : TRUE IN <<x>> \o ListOf(S \ {x})

\* lines 70-95: the document save_results builds
Document(scan_result) ==
    [version |-> "2.0",
     metadata |-> [timestamp |-> scan_result.timestamp,
                   scanned_paths |-> scan_result.scanned_paths,
                   extension |-> scan_result.extension,
                   detection_mode |-> scan_result.detection_mode],
     uniques |-> [i \in DOMAIN scan_result.uniques |->
                     [image_data |->
                          _serialize_image_data(scan_result.uniques[i]),
                      paths |-> <<scan_result.uniques[i].path>>]],
     duplicates |-> [i \in DOMAIN scan_result.duplicates |->
                        [image_data |->
                             _serialize_image_data(
                                 scan_result.duplicates[i].key),
                         paths |-> ListOf(scan_result.duplicates[i].paths)]]]

\* lines 139-143: duplicates[img_data] = set(item['paths'])
RECURSIVE LoadDuplicates(_, _, _)
LoadDuplicates(duplicates, items, i) ==
    IF i > Len(items) THEN duplicates
    ELSE LoadDuplicates(
             DictSet(duplicates,
                     _deserialize_image_data(items[i].image_data, 2000 + i),
                     SeqElems(items[i].paths)),
             items, i + 1)

\* lines 130-155: the ScanResult load_results builds from a document
Loaded(data) ==
    StampedResult(
        [i \in DOMAIN data.uniques |->
            _deserialize_image_data(data.uniques[i].image_data, 1000 + i)],
        LoadDuplicates(<<>>, data.duplicates, 1),
        data.metadata.detection_mode,
        data.metadata.timestamp)

storeIdle == <<scanVars, cmp, instances, frame, ext, disk, findVars, window,
               checkVars, resolveVars, copyVars>>

\* save_results, lines 69-105: True after the document is written; False
\* when open() or json.dump raised, with the file as it was or cut short
save_results ==
    /\ store.pc = "ready"
    /\ store.returned = "none"
    /\ \/ store' = [store EXCEPT
                      !.file = [kind |-> "json",
                                data |-> Document(store.saved)],
                      !.returned = "True"]
       \/ \E left \in {store.file, [kind |-> "corrupted"]} :
             store' = [store EXCEPT !.file = left, !.returned = "False"]
    /\ UNCHANGED storeIdle

\* something else overwrites the file
CorruptFile ==
    /\ store.pc = "ready"
    /\ store.file.kind = "json"
    /\ store' = [store EXCEPT !.file = [kind |-> "corrupted"]]
    /\ UNCHANGED storeIdle

\* load_results, lines 118-166
load_results ==
    /\ store.pc = "ready"
    /\ store.loaded.kind = "unloaded"
    /\ store' = [store EXCEPT
                   !.read = store.file,
                   !.loaded = IF store.file.kind = "json"
                              THEN Loaded(store.file.data)
                              ELSE NoResult]
    /\ UNCHANGED storeIdle

NextStore ==
    \/ save_results
    \/ CorruptFile
    \/ load_results

SpecStore == InitStore /\ [][NextStore]_vars

(***************************************************************************)
(* Properties.                                                             *)
(***************************************************************************)
ReturnedRoots == {r \in Roots : task[r] = "returned" /\ r \in consumed}
FolderUniques(r) == SeqElems(find_duplicates(all_files[r]).uniques)
FolderDuplicates(r) == SeqElems(find_duplicates(all_files[r]).duplicates)
ResultUniques == SeqElems(result.uniques)
ResultDuplicates == SeqElems(result.duplicates)
BaseItems(base) == SeqElems(base.uniques) \cup DictKeys(base.duplicates)

\* C1: when two folders each report as unique an identity equal to the
\* other's under a different path, the returned ScanResult has exactly one
\* duplicate group keyed by that identity, holding both paths, and no equal
\* entry in uniques.
C1_CrossFolderMerge ==
    (pc = "done" /\ base_result = NoResult) =>
        \A r1 \in ReturnedRoots : \A r2 \in ReturnedRoots \ {r1} :
            \A u1 \in FolderUniques(r1) : \A u2 \in FolderUniques(r2) :
                (PyEq(u1, u2) /\ u1.path # u2.path) =>
                    /\ Cardinality({e \in ResultDuplicates :
                                      PyEq(e.key, u1)}) = 1
                    /\ \E e \in ResultDuplicates :
                          PyEq(e.key, u1) /\ {u1.path, u2.path} \subseteq e.paths
                    /\ \A u \in ResultUniques : ~PyEq(u, u1)

\* C2: the path set of every duplicate group of the merged result is exactly
\* the union of the path sets of the folders' duplicate groups with an equal
\* key and of the paths of the folders' unique items with an equal identity.
C2_GroupIsUnionOfContributions ==
    (pc = "done" /\ base_result = NoResult) =>
        \A e \in ResultDuplicates :
            e.paths =
                UNION {d.paths : d \in {g \in UNION {FolderDuplicates(r) :
                                                       r \in ReturnedRoots} :
                                          PyEq(g.key, e.key)}}
                \cup {u.path : u \in {v \in UNION {FolderUniques(r) :
                                                     r \in ReturnedRoots} :
                                        PyEq(v, e.key)}}

\* C3: in every returned ScanResult no unique item equals a duplicate key,
\* every duplicate group has at least two paths, and every unique item stands
\* for its own path only.
C3_ScanResultInvariant ==
    pc = "done" =>
        /\ \A u \in ResultUniques : \A e \in ResultDuplicates :
              ~PyEq(u, e.key)
        /\ \A e \in ResultDuplicates : Cardinality(e.paths) >= 2
        /\ \A u \in ResultUniques : \A e \in ResultDuplicates :
              u.path \notin e.paths
        /\ \A i, j \in 1..Len(result.uniques) :
              result.uniques[i].path = result.uniques[j].path => i = j

\* C4: a cancel() issued while the folder tasks are being consumed makes
\* scan() raise ProcessingCancelled; no ScanResult is returned.
C4_CancelDuringTasksRaises ==
    cancel_at = "tasks" =>
        /\ pc \in {"loop", "exit", "cancelled"}
        /\ result = NoResult

C4_Witness ==
    /\ pc = "cancelled"
    /\ cancel_at = "tasks"
    /\ completed_folders >= 1

\* C5: a folder task that raises is logged and contributes nothing; scan()
\* still returns, and what it returns is the grouping of the files of the
\* folders whose tasks returned.
ReturnedFiles ==
    UNION {SeqElems(all_files[r]) : r \in {q \in Roots : task[q] = "returned"}}

ExpectedGroups(files, base) ==
    LET known(f) == base # NoResult /\ \E b \in BaseItems(base) : KeyMatch(b, f)
    IN  {{g.path : g \in {h \in files : KeyMatch(f, h)}} :
            f \in {h \in files : ~known(h)}}

ResultGroups ==
    {e.paths : e \in ResultDuplicates} \cup {{u.path} : u \in ResultUniques}

C5_FailedFolderOmitted ==
    /\ pc # "failed"
    /\ \A r \in consumed : task[r] = "raised" => r \in logged
    /\ pc \in {"merge", "done"} =>
          /\ consumed = Roots
          /\ \A r \in Roots : task[r] \in {"returned", "raised"}
    /\ pc = "done" =>
          ResultGroups = ExpectedGroups(ReturnedFiles, base_result)

C5_Witness ==
    /\ pc = "done"
    /\ \E r \in Roots : task[r] = "raised" /\ r \in logged
    /\ \E r \in Roots : task[r] = "returned" /\ all_files[r] # <<>>
    /\ result.duplicates # <<>>

\* C6: with a baseline, the returned ScanResult holds no unique item and no
\* duplicate key equal to a baseline item, and every merged identity that
\* equals no baseline item is kept.
C6_BaselineFiltering ==
    (pc = "done" /\ base_result # NoResult) =>
        LET merged == _merge_folder_results(all_uniques, all_duplicates)
            inBase(x) == \E b \in BaseItems(base_result) : PyEq(x, b)
        IN  /\ \A u \in ResultUniques : ~inBase(u)
            /\ \A e \in ResultDuplicates : ~inBase(e.key)
            /\ \A u \in SeqElems(merged.uniques) :
                  ~inBase(u) => u \in ResultUniques
            /\ \A e \in SeqElems(merged.duplicates) :
                  ~inBase(e.key) => e \in ResultDuplicates

\* C7: filtering a ScanResult against itself leaves no unique item and no
\* duplicate group, for both variants, unavailable checksums included.
C7_SelfFilterIsEmpty ==
    self_filtered.kind = "filtered" =>
        /\ self_filtered.uniques = <<>>
        /\ self_filtered.duplicates = <<>>

C7_Witness ==
    /\ self_filtered.kind = "filtered"
    /\ result.duplicates # <<>>
    /\ \E u \in ResultUniques : u.variant = "checksum" /\ u.checksum = None

\* C8: for two identities of the same variant, a == b implies
\* hash(a) == hash(b).
C8_EqImpliesSameHash ==
    (/\ cmp.stage = "evaluated"
     /\ cmp.eq = "True"
     /\ cmp.hash_a # <<>>
     /\ cmp.a.variant = cmp.b.variant) => cmp.hash_a = cmp.hash_b

\* C9: two distinct ChecksumImageData are equal exactly when the checksums
\* are equal, the sizes are equal and the checksum is neither unknown nor
\* empty.
C9_ChecksumEquality ==
    (/\ cmp.stage = "evaluated"
     /\ cmp.eq # "unset"
     /\ cmp.a.variant = "checksum" /\ cmp.b.variant = "checksum"
     /\ cmp.a.id # cmp.b.id) =>
        cmp.eq = PyBool(/\ cmp.a.checksum = cmp.b.checksum
                        /\ cmp.a.size = cmp.b.size
                        /\ Truthy(cmp.a.checksum))

\* C10: two distinct ImageData are equal exactly when EXIF date and size are
\* equal if both carry an EXIF date, and exactly when filename, modified time
\* and size are equal if at most one of them carries an EXIF date.
HasExifDate(x) == Truthy(x.exif_date)

C10_MetadataEquality ==
    (/\ cmp.stage = "evaluated"
     /\ cmp.eq # "unset"
     /\ cmp.a.variant = "metadata" /\ cmp.b.variant = "metadata"
     /\ cmp.a.id # cmp.b.id) =>
        IF HasExifDate(cmp.a) /\ HasExifDate(cmp.b)
        THEN cmp.eq = "True" <=> (/\ cmp.a.exif_date = cmp.b.exif_date
                                  /\ cmp.a.size = cmp.b.size)
        ELSE cmp.eq = "True" <=> (/\ cmp.a.filename = cmp.b.filename
                                  /\ cmp.a.date = cmp.b.date
                                  /\ cmp.a.size = cmp.b.size)

C10_Witness ==
    /\ cmp.stage = "evaluated"
    /\ cmp.eq = "True"
    /\ cmp.a.variant = "metadata" /\ cmp.b.variant = "metadata"
    /\ cmp.a.id # cmp.b.id
    /\ HasExifDate(cmp.a) /\ HasExifDate(cmp.b)
    /\ cmp.a.filename # cmp.b.filename
    /\ cmp.a.date # cmp.b.date


(***************************************************************************)
(* C11: with use_checksum=True and no baseline, two files on disk with the *)
(* same content and size (whatever their names, modification times and     *)
(* folders) end up in one duplicate group of the returned ScanResult, and  *)
(* neither is among its uniques.                                           *)
(***************************************************************************)
DiskPath(r, i) == <<r, i, disk[r][i].filename>>

DiskSlots == {<<r, i>> : r \in Roots, i \in 1..2}

TwinFiles ==
    {t \in DiskSlots \X DiskSlots :
        /\ t[1] # t[2]
        /\ t[1][2] <= Len(disk[t[1][1]])
        /\ t[2][2] <= Len(disk[t[2][1]])
        /\ disk[t[1][1]][t[1][2]].content = disk[t[2][1]][t[2][2]].content
        /\ disk[t[1][1]][t[1][2]].size = disk[t[2][1]][t[2][2]].size}

C11_ChecksumTwinsGrouped ==
    (pc = "done" /\ use_checksum /\ base_result = NoResult) =>
        \A t \in TwinFiles :
            LET p == DiskPath(t[1][1], t[1][2])
                q == DiskPath(t[2][1], t[2][2])
            IN  /\ \E e \in SeqElems(result.duplicates) :
                      {p, q} \subseteq e.paths
                /\ \A u \in SeqElems(result.uniques) : u.path \notin {p, q}

(***************************************************************************)
(* C14: a returned ScanResult has scanned_paths equal to the folders       *)
(* argument, extension equal to the extensions joined with ', ' (a str is  *)
(* one extension, and every task is handed the list), and detection_mode   *)
(* 'checksum' exactly when use_checksum is true, 'metadata' otherwise.     *)
(***************************************************************************)
ExpectedExtension ==
    IF ext.type = "str" THEN ext.v
    ELSE IF Len(ext.v) = 0 THEN ""
    ELSE IF Len(ext.v) = 1 THEN ext.v[1]
    ELSE ext.v[1] \o ", " \o ext.v[2]

C14_ResultMetadata ==
    pc = "done" =>
        /\ result.scanned_paths = Folders
        /\ result.extension = ExpectedExtension
        /\ ext.type = "str" => extensions = <<ext.v>>
        /\ ext.type = "list" => extensions = ext.v
        /\ use_checksum => result.detection_mode = "checksum"
        /\ ~use_checksum => result.detection_mode = "metadata"

C14_Witness ==
    /\ pc = "done"
    /\ ext.type = "list"
    /\ ext.v = <<"jpg", "png">>
    /\ result.extension = "jpg, png"
    /\ result.detection_mode = "checksum"

(***************************************************************************)
(* C15: when scan() returns a ScanResult, the folder-progress callback was *)
(* called with current = 1, 2, ..., total, each time with total = number   *)
(* of folders, so the last call has current = total.                       *)
(***************************************************************************)
C15_FolderProgress ==
    pc = "done" =>
        progress_calls = [i \in 1..NumRoots |->
                             [current |-> i, total |-> NumRoots]]


(***************************************************************************)
(* C12: check() raises ProcessingCancelled whenever the cancel flag is set *)
(* when it is called, whether or not the pause flag is set; and a check()  *)
(* that was blocked on pause never returns normally once the cancel flag   *)
(* is set.                                                                 *)
(***************************************************************************)
C12_BlockedCheckRaisesOnCancel ==
    \A c \in Callers :
        /\ checker[c].entry_cancel => checker[c].pc = "raised"
        /\ (checker[c].blocked /\ checker[c].pc = "returned")
              => ~checker[c].exit_cancel

(***************************************************************************)
(* C12, as the code has it: check() raises whenever the cancel flag is set *)
(* when it is called, paused or not; a check() blocked on pause raises     *)
(* when a poll inside the pause loop finds the cancel flag set, and it     *)
(* returns normally only at a poll that finds the pause flag clear (then   *)
(* even if cancel() was called meanwhile).                                 *)
(***************************************************************************)
C12_CancelPriority ==
    \A c \in Callers :
        /\ checker[c].entry_cancel => checker[c].pc = "raised"
        /\ checker[c].saw_cancel => checker[c].pc = "raised"
        /\ checker[c].pc = "returned" => ~checker[c].exit_pause

C12_Witness ==
    \E c, d \in Callers :
        /\ checker[c].entry_cancel /\ checker[c].entry_pause
        /\ checker[c].pc = "raised"
        /\ ~checker[d].entry_cancel /\ checker[d].blocked
        /\ checker[d].pc = "raised"

(***************************************************************************)
(* C13: a check() does not return while the pause flag is set and raises   *)
(* only when the cancel flag is set; a check() blocked in the pause loop   *)
(* returns normally once the pause flag is clear, unless pause() or        *)
(* cancel() is called before it polls again.                               *)
(***************************************************************************)
C13_PauseBlocksResumeReleases ==
    /\ [](\A c \in Callers :
            /\ checker[c].pc = "returned" => ~checker[c].exit_pause
            /\ checker[c].pc = "raised" => checker[c].exit_cancel)
    /\ \A c \in Callers :
          (checker[c].blocked /\ checker[c].pc \in {"l41", "l42"}
                /\ ~pause_event)
             ~> (checker[c].pc = "returned" \/ pause_event \/ cancel_event)

C13_Witness ==
    \E c \in Callers :
        /\ checker[c].entry_pause /\ checker[c].blocked
        /\ checker[c].pc = "returned"
        /\ ~cancel_event


(***************************************************************************)
(* C16: resolve() puts the four-digit year and the two-digit, zero-filled  *)
(* month and day of the chosen date in place of {year}, {month} and {day}  *)
(* (EXIF date 2023:12:31 14:30:00 with /{year}/{month}/{day} gives         *)
(* /2023/12/31), and returns None for an identity with neither an EXIF     *)
(* date nor a modification time.                                           *)
(***************************************************************************)
\* the calendar date of each date resolve() can parse, from the calendar
IsText(date, text) == date.type = "str" /\ date.v = text.v
IsTime(date, seconds) == date.type = "float" /\ date.v = seconds

ExpectedDate(date, utc_offset) ==
    CASE IsText(date, ExifNewYearsEve) -> <<"2023", "12", "31">>
      [] IsText(date, ExifPadded) -> <<"2024", "01", "05">>
      [] IsText(date, ExifUnpadded) -> <<"2024", "01", "05">>
      [] IsText(date, ExifYearOne) -> <<"0001", "01", "01">>
      [] IsTime(date, 1704067200) -> <<"2024", "01", "01">>
      [] IsTime(date, 1709251199) ->
            IF utc_offset = 0 THEN <<"2024", "02", "29">>
            ELSE <<"2024", "03", "01">>
      [] OTHER -> <<>>

ExpectedPath(pattern, ymd) ==
    CASE pattern = DefaultPattern ->
            "/" \o ymd[1] \o "/" \o ymd[2] \o "/" \o ymd[3]
      [] pattern = YearMonthPattern -> ymd[1] \o "-" \o ymd[2]
      [] OTHER -> "archive"

Resolved == resolution.stage = "resolved"
ResolvedExif == resolution.image_data.exif_date
ResolvedDate == resolution.image_data.date

C16_PlaceholdersSubstituted ==
    Resolved =>
        LET chosen == IF PyTruthy(ResolvedExif) THEN ResolvedExif
                      ELSE ResolvedDate
            ymd == ExpectedDate(chosen, resolution.utc_offset)
        IN  /\ ymd # <<>> =>
                  resolution.out = ExpectedPath(resolution.pattern, ymd)
            /\ (IsText(ResolvedExif, ExifNewYearsEve)
                    /\ resolution.pattern = DefaultPattern)
                  => resolution.out = "/2023/12/31"
            /\ (~PyTruthy(ResolvedExif) /\ ResolvedDate.type = "NoneType")
                  => resolution.out = None

(***************************************************************************)
(* C17: resolve() uses the EXIF date only if it is present and parseable   *)
(* as YYYY:MM:DD HH:MM:SS; for an identity whose EXIF date is present but  *)
(* unparseable and whose modification time is a valid timestamp it returns *)
(* the path derived from the modification time, not None.                  *)
(***************************************************************************)
UnparseableExif == {ExifZeros, ExifFebruary30, ExifDashes}

C17_UnparseableExifFallsBack ==
    (Resolved /\ \E text \in UnparseableExif : IsText(ResolvedExif, text)
        /\ ExpectedDate(ResolvedDate, resolution.utc_offset) # <<>>)
      => resolution.out =
            ExpectedPath(resolution.pattern,
                         ExpectedDate(ResolvedDate, resolution.utc_offset))


(***************************************************************************)
(* C18: in a copy_distinct_items run that is not cancelled, _copy_item is  *)
(* called exactly once per duplicate group and once per unique item, in    *)
(* that order; a group's file is copied from a member of its path set, a   *)
(* unique item's from its own path, and no item is copied twice.           *)
(***************************************************************************)
CopyGroups == copy_job.scan_result.duplicates
CopyUniqueItems == copy_job.scan_result.uniques
ItemEvents == SelectSeq(copy_log, LAMBDA e : e.kind \in {"copied", "error"})
ItemOf(e) == IF e.loop = "duplicates" THEN CopyGroups[e.index].key
             ELSE CopyUniqueItems[e.index]
HasReadableDate(img) == IsText(img.exif_date, ExifNewYearsEve)

C18_OneCopyPerItem ==
    copy_pc = "done" =>
        /\ Len(ItemEvents) = Len(CopyGroups) + Len(CopyUniqueItems)
        /\ \A i \in 1..Len(ItemEvents) :
              IF i <= Len(CopyGroups)
              THEN ItemEvents[i].loop = "duplicates" /\ ItemEvents[i].index = i
              ELSE /\ ItemEvents[i].loop = "uniques"
                   /\ ItemEvents[i].index = i - Len(CopyGroups)
        /\ \A i \in 1..Len(copy_calls) :
              LET c == copy_calls[i]
              IN  /\ c.loop = "duplicates" =>
                        c.source \in CopyGroups[c.index].paths
                  /\ c.loop = "uniques" =>
                        c.source = CopyUniqueItems[c.index].path
                  /\ \A j \in 1..Len(copy_calls) :
                        (copy_calls[j].loop = c.loop
                            /\ copy_calls[j].index = c.index) => j = i
        /\ \A i \in 1..Len(ItemEvents) :
              HasReadableDate(ItemOf(ItemEvents[i])) =>
                  \E j \in 1..Len(copy_calls) :
                      /\ copy_calls[j].loop = ItemEvents[i].loop
                      /\ copy_calls[j].index = ItemEvents[i].index

C18_Witness ==
    /\ copy_pc = "done"
    /\ Len(CopyGroups) >= 1 /\ Len(CopyUniqueItems) >= 1
    /\ \E i, j \in 1..Len(copy_calls) :
          /\ copy_calls[i].loop = "duplicates" /\ copy_calls[i].ok
          /\ copy_calls[i].source = <<"d", 1, 2>>
          /\ copy_calls[j].loop = "uniques" /\ copy_calls[j].ok

(***************************************************************************)
(* C19: an item whose copy fails (its target path cannot be resolved, or   *)
(* the copy itself fails) is logged as an error and counted in the error   *)
(* count, and the items after it are still attempted; a run that is not    *)
(* cancelled logs one summary, last, whose copied count plus error count   *)
(* is the number of duplicate groups plus the number of uniques.           *)
(***************************************************************************)
CountKind(kind) == Len(SelectSeq(copy_log, LAMBDA e : e.kind = kind))

NumberedNames ==
    <<<<"a", ".", "j", "p", "g">>,
      <<"a", "_", "1", ".", "j", "p", "g">>,
      <<"a", "_", "2", ".", "j", "p", "g">>,
      <<"a", "_", "3", ".", "j", "p", "g">>,
      <<"a", "_", "4", ".", "j", "p", "g">>>>

WrittenCalls == SelectSeq(copy_calls, LAMBDA c : c.ok)
SameNameJob ==
    /\ copy_job.kind = "job"
    /\ \A i \in 1..Len(CopyGroups) : CopyGroups[i].key.filename = AJpg
    /\ \A i \in 1..Len(CopyUniqueItems) : CopyUniqueItems[i].filename = AJpg
StartedEmpty == \A f \in target_files : f.source # <<"old">>

C20_NeverOverwrites ==
    /\ \A i \in 1..Len(copy_calls) : ~copy_calls[i].existed
    /\ \A i, j \in 1..Len(WrittenCalls) :
          (WrittenCalls[i].dir = WrittenCalls[j].dir
              /\ WrittenCalls[i].name = WrittenCalls[j].name) => i = j
    /\ \A i \in 1..Len(WrittenCalls) :
          \E f \in target_files :
              /\ f.dir = WrittenCalls[i].dir
              /\ f.name = WrittenCalls[i].name
              /\ f.source = WrittenCalls[i].source
    /\ (SameNameJob /\ StartedEmpty) =>
          \A i \in 1..Len(WrittenCalls) :
              WrittenCalls[i].name = NumberedNames[i]

C20_Witness ==
    /\ copy_pc = "done"
    /\ SameNameJob /\ StartedEmpty
    /\ Len(WrittenCalls) = 3
    /\ WrittenCalls[2].name = <<"a", "_", "1", ".", "j", "p", "g">>
    /\ WrittenCalls[3].name = <<"a", "_", "2", ".", "j", "p", "g">>

(***************************************************************************)
(* C21: when scan() is called with an empty extension filter (an empty     *)
(* list or an empty string) the error reaches the caller before any work   *)
(* starts: no find_duplicates task is ever submitted and no ScanResult is  *)
(* returned.                                                               *)
(***************************************************************************)
EmptyExtensionFilter ==
    \/ ext.type = "list" /\ ext.v = <<>>
    \/ ext.type = "str" /\ ext.v = ""

C21_EmptyExtensionRejected ==
    EmptyExtensionFilter =>
        /\ \A r \in Roots : task[r] = "unsubmitted"
        /\ pc # "done"
        /\ result = NoResult

(***************************************************************************)
(* C24: filtering against a baseline that has no uniques and no duplicate  *)
(* groups removes nothing: the returned uniques and duplicates, with their *)
(* path sets, are those of the same scan without a baseline.               *)
(***************************************************************************)
EmptyBaseline ==
    /\ base_result # NoResult
    /\ base_result.uniques = <<>>
    /\ base_result.duplicates = <<>>

C24_EmptyBaselineRemovesNothing ==
    (pc = "done" /\ EmptyBaseline) =>
        LET unfiltered == ScanOutput(all_uniques, all_duplicates, NoResult)
        IN  /\ result.uniques = unfiltered.uniques
            /\ result.duplicates = unfiltered.duplicates

C24_Witness ==
    /\ pc = "done"
    /\ EmptyBaseline
    /\ result.uniques # <<>>
    /\ result.duplicates # <<>>

(***************************************************************************)
(* C25: no ScanResult is produced for a cancelled run: once cancel() has   *)
(* been called after scan() reset its flags and before scan() returned,    *)
(* during the folder tasks, after the last of them was consumed or during  *)
(* the merge and baseline-filter steps, scan() does not return a           *)
(* ScanResult.                                                             *)
(***************************************************************************)
C25_NoResultForCancelledRun ==
    cancel_at # "never" => (pc # "done" /\ result = NoResult)

(***************************************************************************)
(* C22: within one multi-root scan() no file (canonical path) is opened by *)
(* process_image more than once, also when the requested roots overlap     *)
(* (one root equals or lies inside another).                               *)
(***************************************************************************)
Opened == {e \in events : e.kind = "open"}
ScanCompleteScheduled ==
    \E i \in 1..Len(window.after) : window.after[i].fn = "_on_scan_complete"

ReturnedCalls == {c \in DOMAIN calls : calls[c].stage = "returned"}
UniquesWith(c, path) ==
    {i \in 1..Len(calls[c].result.uniques) :
        calls[c].result.uniques[i].path = path}
GroupsWith(c, path) ==
    {i \in 1..Len(calls[c].result.duplicates) :
        path \in calls[c].result.duplicates[i].paths}
IdentityPaths(c, img) ==
    {other.path : other \in {o \in SeqElems(calls[c].all_files) :
                                PyEq(img, o)}}
NullProbes(c) ==
    {j \in DOMAIN calls[c].futures :
        calls[c].futures[j] \in {"none", "cancelled"}}

C26_ProbeResultsPartitioned ==
    \A c \in ReturnedCalls :
        /\ \A img \in SeqElems(calls[c].all_files) :
              /\ Cardinality(UniquesWith(c, img.path))
                    + Cardinality(GroupsWith(c, img.path)) = 1
              /\ Cardinality(IdentityPaths(c, img)) = 1 =>
                    UniquesWith(c, img.path) # {}
              /\ Cardinality(IdentityPaths(c, img)) > 1 =>
                    GroupsWith(c, img.path) # {}
        /\ \A j \in NullProbes(c) :
              /\ UniquesWith(c, calls[c].all_paths[j].path) = {}
              /\ GroupsWith(c, calls[c].all_paths[j].path) = {}

(***************************************************************************)
(* C27: a probe that fails for one file (the file cannot be read as an     *)
(* image, or the worker raised) never aborts the batch: find_duplicates    *)
(* still returns, what it returns holds exactly the files whose probe      *)
(* produced an identity, and the failing file is in neither uniques nor    *)
(* duplicates.  A call ends early only when its own controller check saw   *)
(* the cancel flag.                                                        *)
(***************************************************************************)
FailedProbes(c) ==
    {j \in DOMAIN calls[c].futures : calls[c].futures[j] = "none"}
ResultPaths(c) ==
    {calls[c].result.uniques[i].path :
        i \in 1..Len(calls[c].result.uniques)}
    \cup UNION {calls[c].result.duplicates[i].paths :
                  i \in 1..Len(calls[c].result.duplicates)}

C27_FailedProbeSkipped ==
    \A c \in DOMAIN calls :
        /\ calls[c].stage \in {"aborting", "cancelled"} => cancel_event
        /\ calls[c].stage = "returned" =>
              /\ ResultPaths(c) =
                    {calls[c].all_paths[j].path :
                        j \in {k \in DOMAIN calls[c].futures :
                                 calls[c].futures[k] = "identity"}}
              /\ \A j \in FailedProbes(c) :
                    /\ UniquesWith(c, calls[c].all_paths[j].path) = {}
                    /\ GroupsWith(c, calls[c].all_paths[j].path) = {}

C27_Witness ==
    \E c \in ReturnedCalls :
        /\ ~cancel_event
        /\ Len(calls[c].all_paths) = 2
        /\ calls[c].futures = <<"none", "identity">>
        /\ calls[c].result.duplicates = <<>>
        /\ Len(calls[c].result.uniques) = 1
        /\ calls[c].result.uniques[1].path = calls[c].all_paths[2].path

(***************************************************************************)
(* C28: cancellation is never swallowed as a skippable error: in every     *)
(* execution in which a probe worker or a folder task raised               *)
(* ProcessingCancelled, scan() does not go on to return a ScanResult (in   *)
(* which the cancelled probe's file or the cancelled root's results would  *)
(* be missing); when its pool is left it raises ProcessingCancelled.       *)
(***************************************************************************)
CancelledProbes(c) ==
    {j \in DOMAIN calls[c].futures : calls[c].futures[j] = "cancelled"}
RaisedCancelled(c) ==
    CancelledProbes(c) # {} \/ calls[c].stage \in {"aborting", "cancelled"}

C28_CancellationNotSwallowed ==
    (\E c \in DOMAIN calls : RaisedCancelled(c)) =>
        /\ find_scan # "merge"
        /\ cancel_event
        /\ \A c \in DOMAIN calls :
              CancelledProbes(c) # {} => calls[c].stage # "returned"

C28_Witness ==
    /\ find_scan = "cancelled"
    /\ calls[1].stage = "returned"
    /\ calls[1].result.uniques # <<>>
    /\ calls[2].stage = "cancelled"
    /\ CancelledProbes(2) # {}

(***************************************************************************)
(* C29: the controller is checked before each root, before each enumerated *)
(* path and before each probe: once the cancel flag is set, no             *)
(* process_image call that begins afterwards opens or stats its file, and  *)
(* no path enumerated afterwards is added to the visited set or to the     *)
(* path list.                                                              *)
(***************************************************************************)
C29_NothingStartedAfterCancel ==
    /\ \A e \in events : ~e.cancelled
    /\ \A c \in DOMAIN calls :
          /\ calls[c].visited_paths =
                {e.path : e \in {a \in events :
                                    a.kind = "add" /\ a.call = c}}
          /\ \A j \in DOMAIN calls[c].futures :
                calls[c].futures[j] # "late"

C29_Witness ==
    /\ cancel_event
    /\ calls[1].stage = "cancelled"
    /\ CancelledProbes(1) # {}
    /\ \A e \in Opened : e.call # 1
    /\ Len(calls) = 2
    /\ calls[2].stage = "cancelled"
    /\ tree[2] # <<>>
    /\ calls[2].visited_paths = {}

(***************************************************************************)
(* C30: no data race on the shared aggregation state: the aggregated       *)
(* all_uniques list, the all_duplicates map and the completed-folder       *)
(* counter are written only by the thread that consumes the futures, one   *)
(* consumed future at a time, whatever the folder tasks do meanwhile; no   *)
(* update is lost and the counter equals the number of results consumed.   *)
(***************************************************************************)
AggregationWritten ==
    \/ all_uniques' # all_uniques
    \/ all_duplicates' # all_duplicates
    \/ completed_folders' # completed_folders
    \/ progress_calls' # progress_calls

ConsumerStep ==
    /\ pc = "loop"
    /\ pending # <<>>
    /\ task[Head(pending)] = "returned"
    /\ consumed' = consumed \cup {Head(pending)}
    /\ completed_folders' = completed_folders + 1
    /\ task' = task

NothingLost ==
    /\ completed_folders = Cardinality(ReturnedRoots)
    /\ Len(progress_calls) = completed_folders
    /\ SeqElems(all_uniques) = UNION {FolderUniques(r) : r \in ReturnedRoots}
    /\ Len(all_uniques) = Cardinality(SeqElems(all_uniques))
    /\ \A r \in ReturnedRoots : \A g \in FolderDuplicates(r) :
          \E i \in 1..Len(all_duplicates) :
              g.paths \subseteq all_duplicates[i].paths

ProbeProgress(n, total) ==
    [k \in 1..n |-> [completed |-> k, total |-> total]]

C31_ProgressPerProbe ==
    \A c \in DOMAIN calls :
        LET N == Len(calls[c].all_paths)
        IN  /\ calls[c].i <= N
            /\ calls[c].stage # "returned" =>
                  calls[c].progress = ProbeProgress(calls[c].i, N)
            /\ calls[c].stage = "returned" =>
                  /\ calls[c].i = N
                  /\ calls[c].progress =
                        Append(ProbeProgress(N, N),
                               [completed |-> N, total |-> N])

C31_Witness ==
    \E c \in ReturnedCalls :
        /\ calls[c].futures = <<"none", "identity">>
        /\ calls[c].progress =
              <<[completed |-> 1, total |-> 2],
                [completed |-> 2, total |-> 2],
                [completed |-> 2, total |-> 2]>>

(***************************************************************************)
(* C32: the checksum of a ChecksumImageData instance is computed at most   *)
(* once per instance: over any sequence of checksum reads, equality tests  *)
(* and hash calls on it, calculate_checksum runs at most one time, also    *)
(* when the computation fails and yields no checksum.                      *)
(***************************************************************************)
C32_ChecksumComputedOnce ==
    \A x \in DOMAIN instances.objs : instances.objs[x].calculated <= 1

(***************************************************************************)
(* C33: the archival copy is cancellable: once CopyService.cancel() has    *)
(* been called during copy_distinct_items, no item whose loop turn starts  *)
(* afterwards is copied (in the duplicates loop or in the uniques loop),   *)
(* the run logs "Copy operation cancelled." and the "Copy complete"        *)
(* summary is not logged.  CopyRunning holds from the clearing of the flag *)
(* at line 34 to the return; CancelSeen is a step of a run whose flag is   *)
(* set.                                                                    *)
(***************************************************************************)
CopyRunning == copy_pc \in {"duplicates", "uniques", "after", "summary"}

BeforeFinalTest == copy_pc \in {"duplicates", "uniques", "after"}

NothingCopied ==
    /\ copy_calls' = copy_calls
    /\ target_files' = target_files
    /\ copied_count' = copied_count

EndsCancelled ==
    /\ copy_cancel'
    /\ copy_pc' \in {"uniques", "after", "cancelled"}
    /\ IF copy_pc' = "cancelled"
       THEN copy_log' = Append(copy_log, [kind |-> "cancelled"])
       ELSE copy_log' = copy_log

C33_CancelStopsCopy ==
    [][copy_cancel /\ CopyRunning => NothingCopied /\ EndsCancelled]_vars

\* C33 for a cancel() that precedes the last test of the flag (line 79)
C33_CancelBeforeFinalTestStopsCopy ==
    [][copy_cancel /\ BeforeFinalTest => NothingCopied /\ EndsCancelled]_vars

C33_Witness ==
    /\ copy_pc = "cancelled"
    /\ copy_cancel
    /\ copied_count = 1
    /\ Len(copy_job.scan_result.duplicates) = 1
    /\ Len(copy_job.scan_result.uniques) = 1
    /\ copy_log[Len(copy_log)] = [kind |-> "cancelled"]

(***************************************************************************)
(* C34: every path in a duplicate group of a returned ScanResult names a   *)
(* different file: a file reachable through two overlapping roots, which   *)
(* both folder tasks report with the same path, is never reported as a     *)
(* duplicate of itself, and when no other file equals it, it is one unique *)
(* item of the result.  A path of the model names one file.                *)
(***************************************************************************)
ListedBy(r) == {tree[r][k] : k \in DOMAIN tree[r]}

SharedFiles == {f \in ListedBy(1) \cap ListedBy(2) : f.readable}

\* f is the only readable file of the tree with its identity
OnItsOwn(f) ==
    \A g \in ListedBy(1) \cup ListedBy(2) :
        g.readable /\ g.path # f.path =>
            /\ ~PyEq(ProbedBy(1, f), ProbedBy(1, g))
            /\ ~PyEq(ProbedBy(1, g), ProbedBy(1, f))

UniquesAt(path) ==
    {k \in DOMAIN result.uniques : result.uniques[k].path = path}

GroupsAt(path) ==
    {k \in DOMAIN result.duplicates : path \in result.duplicates[k].paths}

C35_CancelNeverLost ==
    (window.thread # "idle" /\ cancel_at # "never") => pc # "done"

(***************************************************************************)
(* C36: when scan() raises ProcessingCancelled no folder task and no probe *)
(* worker of that scan is still running: the pool is left only after every *)
(* submitted folder task has finished or unwound, so no file is probed     *)
(* after the caller has observed the cancellation.                         *)
(***************************************************************************)
CallEnded(c) == calls[c].stage \in {"returned", "cancelled"}

ProbeEnded(c, j) == calls[c].futures[j] \in {"identity", "none", "cancelled"}

AllWorkersEnded ==
    \A c \in DOMAIN calls :
        /\ CallEnded(c)
        /\ \A j \in DOMAIN calls[c].futures : ProbeEnded(c, j)

C36_NoWorkerOutlivesCancelledScan ==
    /\ [](find_scan = "cancelled" => AllWorkersEnded)
    /\ [][find_scan = "cancelled" => events' = events /\ calls' = calls]_vars

C36_Witness ==
    /\ find_scan = "cancelled"
    /\ \E c \in DOMAIN calls :
          /\ calls[c].stage = "cancelled"
          /\ \E j \in DOMAIN calls[c].futures :
                calls[c].futures[j] = "cancelled"
          /\ \E j \in DOMAIN calls[c].futures :
                calls[c].futures[j] = "identity"

(***************************************************************************)
(* C37: termination.  Under fair scheduling, when every probe and every    *)
(* enumeration step terminates and the pause flag does not stay set (each  *)
(* pause() is followed by a resume() or a cancel(), after which no check() *)
(* is held back any more), scan() eventually returns a ScanResult or       *)
(* raises; and once cancel() has been called no worker is left waiting in  *)
(* check(): the scan ends whatever the pause flag is.                      *)
(***************************************************************************)
ScanEnded == find_scan \in {"done", "cancelled"}

C37_ScanTerminates ==
    /\ <>[](~Blocked) => <>ScanEnded
    /\ cancel_event ~> ScanEnded

C37_Witness ==
    /\ find_scan = "cancelled"
    /\ pause_event
    /\ \E c \in DOMAIN calls : calls[c].stage = "cancelled"

(***************************************************************************)
(* C38: baseline filtering and merging have no side effects on their       *)
(* inputs: _filter_against_base leaves the uniques and the duplicates of   *)
(* base_result as they were and only removes entries (its uniques are a    *)
(* sub-list of the input in the same order, every retained group keeps its *)
(* input path set), and the aggregation and the merge do not change the    *)
(* path sets of the per-root results returned by the folder tasks.         *)
(***************************************************************************)
SetsKept(dups) ==
    \A i \in DOMAIN dups : frame.heap[dups[i].ref] = frame.returned[dups[i].ref]

RECURSIVE IsSubList(_, _)
IsSubList(s, t) ==
    IF s = <<>> THEN TRUE
    ELSE IF t = <<>> THEN FALSE
    ELSE IF Head(s) = Head(t) THEN IsSubList(Tail(s), Tail(t))
    ELSE IsSubList(s, Tail(t))

C38_InputsLeftAlone ==
    /\ [](/\ \A r \in DOMAIN frame.folders :
                SetsKept(frame.folders[r].duplicates)
          /\ SetsKept(frame.base.duplicates)
          /\ frame.pc = "filtered" =>
                /\ IsSubList(frame.filtered.uniques, frame.merged.uniques)
                /\ IsSubList(frame.filtered.duplicates,
                             frame.merged.duplicates))
    /\ [][/\ frame'.folders = frame.folders
          /\ frame'.base = frame.base
          /\ frame'.returned = frame.returned
          /\ frame.pc = "merged" =>
                /\ frame'.heap = frame.heap
                /\ frame'.merged = frame.merged]_vars

C38_Witness ==
    /\ frame.pc = "filtered"
    /\ \E i \in DOMAIN frame.merged.duplicates :
          Cardinality(frame.heap[frame.merged.duplicates[i].ref]) = 4
    /\ Len(frame.base.uniques) = 1
    /\ Len(frame.filtered.duplicates) = 1

(***************************************************************************)
(* C39: metadata-variant equality (ImageData.__eq__) is an equivalence     *)
(* relation over all identities: reflexive, symmetric and transitive for   *)
(* every combination of operands with and without an EXIF date, so that    *)
(* grouping by it does not depend on the order of insertion.  a and b are  *)
(* the operands of the evaluated a == b, c is any third identity.          *)
(***************************************************************************)
C39_EqIsEquivalence ==
    (/\ cmp.stage = "evaluated"
     /\ cmp.eq # "unset"
     /\ cmp.a.variant = "metadata"
     /\ cmp.b.variant = "metadata") =>
        /\ ImageDataEq(cmp.a, cmp.a) /\ ImageDataEq(cmp.b, cmp.b)
        /\ cmp.eq = PyBool(ImageDataEq(cmp.b, cmp.a))
        /\ \A c \in MetadataOperands(3) :
              (cmp.eq = "True" /\ ImageDataEq(cmp.b, c)) =>
                  ImageDataEq(cmp.a, c)

(***************************************************************************)
(* C40: persistence round trip.  Loading what save_results(r) wrote yields *)
(* a ScanResult with r's scanned_paths, extension, detection_mode and      *)
(* timestamp, uniques that are pairwise equal to r's uniques under the     *)
(* same identity variant, and duplicate groups with equal keys and         *)
(* identical path sets, also for checksum-variant identities whose         *)
(* checksum is unavailable; a missing or corrupted file yields None and a  *)
(* failed save yields False.                                               *)
(***************************************************************************)
SameIdentity(a, b) ==
    /\ a.variant = b.variant
    /\ PyEq(a, b)
    /\ PyEq(b, a)

RoundTrip(r, l) ==
    /\ l.scanned_paths = r.scanned_paths
    /\ l.extension = r.extension
    /\ l.detection_mode = r.detection_mode
    /\ l.timestamp = r.timestamp
    /\ Len(l.uniques) = Len(r.uniques)
    /\ \A i \in DOMAIN r.uniques : SameIdentity(r.uniques[i], l.uniques[i])
    /\ Len(l.duplicates) = Len(r.duplicates)
    /\ \A i \in DOMAIN r.duplicates :
          /\ SameIdentity(r.duplicates[i].key, l.duplicates[i].key)
          /\ l.duplicates[i].paths = r.duplicates[i].paths

C40_PersistenceRoundTrip ==
    /\ store.returned \in {"none", "True", "False"}
    /\ store.loaded.kind # "unloaded" =>
          IF store.read.kind = "json"
          THEN /\ store.read.data = Document(store.saved)
               /\ store.loaded.kind = "ScanResult"
               /\ RoundTrip(store.saved, store.loaded)
          ELSE store.loaded = NoResult

====
